---- MODULE Spec2Model ----
(***************************************************************************)
(* The TernFS shard state machine (src/cpp/shard/ShardDB.cpp): the         *)
(* persisted RocksDB state, applyLogEntry with its write batch and save    *)
(* point, the read snapshot refreshed by flush(), and the read path.       *)
(*                                                                         *)
(* Inside applyLogEntry every read is `_db->Get({}, ...)`, that is a read  *)
(* of the committed database, while every write goes to the write batch,   *)
(* which is committed by the final `_db->Write`.  The apply operators      *)
(* therefore take two databases: `db`, the committed state all reads see,  *)
(* and `b`, the committed state with the batch's writes so far laid over   *)
(* it.                                                                     *)
(***************************************************************************)
EXTENDS Integers, Sequences, FiniteSets, TLC

\* ------------------------------------------------------------------ bounds
\* log times are drawn from 1..MaxTime (the wall clock may go backwards)
MaxTime == 4
\* applyLogEntry is explored up to this log index
MaxLog == 4
\* number of bits of an inode id below its type (61 in the code)
IdTypeBits == 13
\* at most this many files are constructed
MaxFiles == 1

\* --------------------------------------------------------- inode ids, keys
NULL_INODE_ID == 0
DIRECTORY == 1
FILE == 2
SYMLINK == 3
\* the shard the model runs: the root directory's shard
SHID == 0

InodeId(type, shid, n) == type * (2 ^ IdTypeBits) + n * 256 + shid
InodeType(id) == id \div (2 ^ IdTypeBits)
ROOT_DIR_INODE_ID == InodeId(DIRECTORY, SHID, 0)

\* a column family is a function from keys to values
EmptyCf == [k \in {} |-> 0]
Put(cf, k, v) == [x \in (DOMAIN cf) \cup {k} |-> IF x = k THEN v ELSE cf[x]]
Delete(cf, k) == [x \in (DOMAIN cf) \ {k} |-> cf[x]]

VARIABLES
    db,                   \* the committed RocksDB state
    aborted,              \* an ALWAYS_ASSERT has tripped: the process is gone
    last,                 \* the log entry applied last, with its response
    currentReadSnapshot,  \* _currentReadSnapshot: the snapshot reads run on
    flusher,              \* the threads inside flush()
    reader,               \* the thread inside read(), or inside the picking
                          \* of block services of prepareLogEntry
    history,              \* history[k + 1] is the database after entries 1..k
    db2,                  \* the database of a second replica fed the same log
    buf,                  \* a BincodeBuf being packed, and the one unpacking it
    pending               \* the entries prepareLogEntry has returned, in the
                          \* log and not applied yet; or the entry of a
                          \* request its client keeps to send it again

vars == <<db, aborted, last, currentReadSnapshot, flusher, reader, history, db2, buf, pending>>
\* what the applies leave alone
readVars == <<currentReadSnapshot, flusher, reader, history, buf, pending>>

\* _initDb on the root shard, on an empty database
initDb ==
    [ lastApplied   |-> 0,
      nextFileId    |-> InodeId(FILE, SHID, 0),
      nextSymlinkId |-> InodeId(SYMLINK, SHID, 0),
      nextBlockId   |-> SHID,
      directories   |-> Put(EmptyCf, ROOT_DIR_INODE_ID,
                            [ownerId |-> NULL_INODE_ID, mtime |-> 0, info |-> "default"]),
      files         |-> EmptyCf,
      transient     |-> EmptyCf,
      spans         |-> EmptyCf,
      current       |-> EmptyCf,
      snapshot      |-> EmptyCf,
      bsToFiles     |-> EmptyCf ]

\* `last` keeps, of the entry applied last: its kind, its time, the directory
\* (or inode) and the name it addresses, the index it was applied at and the
\* error of the response
NoEntry ==
    [kind |-> "NONE", time |-> 0, err |-> "NO_ERROR", index |-> 0,
     dirId |-> NULL_INODE_ID, name |-> "", wasMoved |-> FALSE]

NoRequest == [kind |-> "NONE"]
NoResponse == [err |-> "NO_ERROR"]
\* flush() is public and takes no lock: the threads that may be inside it
MaxFlushThreads == 2
FlushThreads == 1..MaxFlushThreads
IdleFlusher == [pc |-> "idle", snapshot |-> initDb, calledAt |-> 0]
\* `published` is the index that had been applied when the snapshot published
\* last was taken
\* `closing` holds while close() is inside its reset() of the pointer, and
\* `raced` when an exchange of flush() has written the pointer meanwhile;
\* `released` holds when the snapshot the pointer names has had
\* ReleaseSnapshot called on it
NoFlush ==
    [threads |-> [t \in FlushThreads |-> IdleFlusher], published |-> 0, closing |-> FALSE,
     raced |-> FALSE, released |-> FALSE]
\* `released` holds of a reader whose snapshot has had ReleaseSnapshot called
\* on it already
IdleReader ==
    [pc |-> "idle", snapshot |-> initDb, released |-> FALSE, req |-> NoRequest,
     resp |-> NoResponse, index |-> 0, appliedAtStart |-> 0, flushedAtStart |-> 0]

\* no buffer yet
NoBuf == [pc |-> "none", data |-> <<>>, cursor |-> 0, items |-> <<>>, next |-> 1]

\* the constructor: _initDb, then _updateCurrentReadSnapshot
Init ==
    /\ db = initDb
    /\ aborted = FALSE
    /\ last = NoEntry
    /\ currentReadSnapshot = initDb
    /\ flusher = NoFlush
    /\ reader = IdleReader
    /\ history = <<initDb>>
    /\ db2 = initDb
    /\ buf = NoBuf
    /\ pending = <<>>

\* ------------------------------------------------------------ apply helpers
lastAppliedLogEntry(d) == d.lastApplied

\* the ALWAYS_ASSERT of _advanceLastAppliedLogEntry
advanceAssertion(d, index) == lastAppliedLogEntry(d) + 1 = index

\* variant: the index is left where it was
advanceLastAppliedLogEntry_Skipped(b, index) == b

advanceLastAppliedLogEntry(b, index) == [b EXCEPT !.lastApplied = index]

NoDir == [ownerId |-> NULL_INODE_ID, mtime |-> 0, info |-> "none"]

getDirectory(d, id, allowSnapshot) ==
    IF InodeType(id) # DIRECTORY THEN [err |-> "TYPE_IS_NOT_DIRECTORY", dir |-> NoDir]
    ELSE IF id \notin DOMAIN d.directories THEN [err |-> "DIRECTORY_NOT_FOUND", dir |-> NoDir]
    ELSE IF ~allowSnapshot /\ d.directories[id].ownerId = NULL_INODE_ID /\ id # ROOT_DIR_INODE_ID
         THEN [err |-> "DIRECTORY_NOT_FOUND", dir |-> NoDir]
    ELSE [err |-> "NO_ERROR", dir |-> d.directories[id]]

initiateDirectoryModification(d, b, time, allowSnapshot, dirId) ==
    LET g == getDirectory(d, dirId, allowSnapshot) IN
    IF g.err # "NO_ERROR" THEN [err |-> g.err, b |-> b, dir |-> NoDir]
    ELSE IF g.dir.mtime >= time THEN [err |-> "MTIME_IS_TOO_RECENT", b |-> b, dir |-> NoDir]
    ELSE LET nd == [g.dir EXCEPT !.mtime = time] IN
         [err |-> "NO_ERROR", b |-> [b EXCEPT !.directories = Put(@, dirId, nd)], dir |-> nd]

Fail(e, b) == [err |-> e, b |-> b]
Ok(b) == [err |-> "NO_ERROR", b |-> b]

applyCreateDirectoryInode(d, b, time, entry) ==
    LET g == getDirectory(d, entry.id, FALSE) IN
    IF g.err = "NO_ERROR" THEN
        IF g.dir.ownerId # entry.ownerId THEN Fail("MISMATCHING_OWNER", b) ELSE Ok(b)
    ELSE IF g.err # "DIRECTORY_NOT_FOUND" THEN Fail(g.err, b)
    ELSE Ok([b EXCEPT !.directories =
                Put(@, entry.id, [ownerId |-> entry.ownerId, mtime |-> time, info |-> entry.info])])

applySetDirectoryInfo(d, b, time, entry) ==
    LET AfterInitiate(m) ==
            IF m.err # "NO_ERROR" THEN Fail(m.err, b)
            ELSE Ok([m.b EXCEPT !.directories =
                        Put(@, entry.dirId, [ownerId |-> m.dir.ownerId, mtime |-> m.dir.mtime, info |-> entry.info])])
    IN  AfterInitiate(initiateDirectoryModification(d, b, time, TRUE, entry.dirId))

\* ------------------------------------------------------------------- edges
\* Edges live in one column family; the model keeps the current edges
\* (key: directory, name) and the snapshot edges (key: directory, name,
\* creation time) in two maps.  Every directory has hash mode XXH3_63, so the
\* name hash is a function of the name and is left out of the keys.
CurKey(dirId, name) == <<dirId, name>>
SnapKey(dirId, name, creationTime) == <<dirId, name, creationTime>>

SnapshotTimes(d, dirId, name) ==
    {k[3] : k \in {x \in DOMAIN d.snapshot : x[1] = dirId /\ x[2] = name}}

SetMax(S) == CHOOSE x \in S : \A y \in S : y <= x

CreateResult(e, b, creationTime) == [err |-> e, b |-> b, creationTime |-> creationTime]

\* variant: a directory may be overridden, and may override
createCurrentEdge_OverridesDirectories(d, b, logEntryTime, dirId, name, targetId, locked, oldCreationTime) ==
    LET AfterInitiate(m) ==
            LET ck == CurKey(dirId, name)
                snaps == SnapshotTimes(d, dirId, name)
                putCurrent(bb, ct) ==
                    [bb EXCEPT !.current =
                        Put(@, ck, [targetId |-> targetId, locked |-> locked, creationTime |-> ct])]
            IN
            IF m.err # "NO_ERROR" THEN CreateResult(m.err, b, logEntryTime)
            ELSE IF ck \notin DOMAIN d.current THEN
                IF snaps # {} /\ SetMax(snaps) >= logEntryTime
                THEN CreateResult("MORE_RECENT_SNAPSHOT_EDGE", m.b, logEntryTime)
                ELSE CreateResult("NO_ERROR", putCurrent(m.b, logEntryTime), logEntryTime)
            ELSE LET existingEdge == d.current[ck] IN
                IF existingEdge.locked THEN
                    IF ~locked THEN CreateResult("NAME_IS_LOCKED", m.b, logEntryTime)
                    ELSE IF existingEdge.targetId # targetId
                        THEN CreateResult("MISMATCHING_TARGET", m.b, logEntryTime)
                    ELSE IF existingEdge.creationTime # oldCreationTime
                        THEN CreateResult("MISMATCHING_CREATION_TIME", m.b, logEntryTime)
                    ELSE CreateResult("NO_ERROR", putCurrent(m.b, existingEdge.creationTime),
                                      existingEdge.creationTime)
                ELSE
                    IF existingEdge.creationTime >= logEntryTime
                        THEN CreateResult("MORE_RECENT_CURRENT_EDGE", m.b, logEntryTime)
                    ELSE LET b1 == [m.b EXCEPT !.snapshot =
                                        Put(@, SnapKey(dirId, name, existingEdge.creationTime),
                                            [targetId |-> existingEdge.targetId, owned |-> TRUE])]
                         IN CreateResult("NO_ERROR", putCurrent(b1, logEntryTime), logEntryTime)
    IN  AfterInitiate(initiateDirectoryModification(d, b, logEntryTime, FALSE, dirId))

\* variant: the snapshot edges of the name are not looked at
createCurrentEdge_NoSnapshotCheck(d, b, logEntryTime, dirId, name, targetId, locked, oldCreationTime) ==
    LET AfterInitiate(m) ==
            LET ck == CurKey(dirId, name)
                putCurrent(bb, ct) ==
                    [bb EXCEPT !.current =
                        Put(@, ck, [targetId |-> targetId, locked |-> locked, creationTime |-> ct])]
            IN
            IF m.err # "NO_ERROR" THEN CreateResult(m.err, b, logEntryTime)
            ELSE IF ck \notin DOMAIN d.current THEN
                CreateResult("NO_ERROR", putCurrent(m.b, logEntryTime), logEntryTime)
            ELSE LET existingEdge == d.current[ck] IN
                IF existingEdge.locked THEN
                    IF ~locked THEN CreateResult("NAME_IS_LOCKED", m.b, logEntryTime)
                    ELSE IF existingEdge.targetId # targetId
                        THEN CreateResult("MISMATCHING_TARGET", m.b, logEntryTime)
                    ELSE IF existingEdge.creationTime # oldCreationTime
                        THEN CreateResult("MISMATCHING_CREATION_TIME", m.b, logEntryTime)
                    ELSE CreateResult("NO_ERROR", putCurrent(m.b, existingEdge.creationTime),
                                      existingEdge.creationTime)
                ELSE
                    IF existingEdge.creationTime >= logEntryTime
                        THEN CreateResult("MORE_RECENT_CURRENT_EDGE", m.b, logEntryTime)
                    ELSE IF InodeType(targetId) = DIRECTORY \/ InodeType(existingEdge.targetId) = DIRECTORY
                        THEN CreateResult("CANNOT_OVERRIDE_NAME", m.b, logEntryTime)
                    ELSE LET b1 == [m.b EXCEPT !.snapshot =
                                        Put(@, SnapKey(dirId, name, existingEdge.creationTime),
                                            [targetId |-> existingEdge.targetId, owned |-> TRUE])]
                         IN CreateResult("NO_ERROR", putCurrent(b1, logEntryTime), logEntryTime)
    IN  AfterInitiate(initiateDirectoryModification(d, b, logEntryTime, FALSE, dirId))

createCurrentEdge(d, b, logEntryTime, dirId, name, targetId, locked, oldCreationTime) ==
    LET AfterInitiate(m) ==
            LET ck == CurKey(dirId, name)
                snaps == SnapshotTimes(d, dirId, name)
                putCurrent(bb, ct) ==
                    [bb EXCEPT !.current =
                        Put(@, ck, [targetId |-> targetId, locked |-> locked, creationTime |-> ct])]
            IN
            \* ALWAYS_ASSERT(locked || oldCreationTime == 0)
            IF ~locked /\ oldCreationTime # 0 THEN CreateResult("CRASH", b, logEntryTime)
            ELSE IF m.err # "NO_ERROR" THEN CreateResult(m.err, b, logEntryTime)
            ELSE IF ck \notin DOMAIN d.current THEN
                IF snaps # {} /\ SetMax(snaps) >= logEntryTime
                THEN CreateResult("MORE_RECENT_SNAPSHOT_EDGE", m.b, logEntryTime)
                ELSE CreateResult("NO_ERROR", putCurrent(m.b, logEntryTime), logEntryTime)
            ELSE LET existingEdge == d.current[ck] IN
                IF existingEdge.locked THEN
                    IF ~locked THEN CreateResult("NAME_IS_LOCKED", m.b, logEntryTime)
                    ELSE IF existingEdge.targetId # targetId
                        THEN CreateResult("MISMATCHING_TARGET", m.b, logEntryTime)
                    ELSE IF existingEdge.creationTime # oldCreationTime
                        THEN CreateResult("MISMATCHING_CREATION_TIME", m.b, logEntryTime)
                    ELSE CreateResult("NO_ERROR", putCurrent(m.b, existingEdge.creationTime),
                                      existingEdge.creationTime)
                ELSE
                    IF existingEdge.creationTime >= logEntryTime
                        THEN CreateResult("MORE_RECENT_CURRENT_EDGE", m.b, logEntryTime)
                    ELSE IF InodeType(targetId) = DIRECTORY \/ InodeType(existingEdge.targetId) = DIRECTORY
                        THEN CreateResult("CANNOT_OVERRIDE_NAME", m.b, logEntryTime)
                    ELSE LET b1 == [m.b EXCEPT !.snapshot =
                                        Put(@, SnapKey(dirId, name, existingEdge.creationTime),
                                            [targetId |-> existingEdge.targetId, owned |-> TRUE])]
                         IN CreateResult("NO_ERROR", putCurrent(b1, logEntryTime), logEntryTime)
    IN  AfterInitiate(initiateDirectoryModification(d, b, logEntryTime, FALSE, dirId))

DeletionEdge == [targetId |-> NULL_INODE_ID, owned |-> FALSE]

\* variant: the edge moves to the snapshot edges with no deletion edge after it
softUnlinkCurrentEdge_NoDeletionEdge(d, b, time, dirId, name, creationTime, targetId, owned) ==
    LET AfterInitiate(m) ==
            LET ck == CurKey(dirId, name)
            IN
            IF m.err # "NO_ERROR" THEN Fail(m.err, b)
            ELSE IF ck \notin DOMAIN d.current THEN Fail("EDGE_NOT_FOUND", m.b)
            ELSE IF d.current[ck].targetId # targetId THEN Fail("MISMATCHING_TARGET", m.b)
            ELSE IF d.current[ck].creationTime # creationTime THEN Fail("MISMATCHING_CREATION_TIME", m.b)
            ELSE IF d.current[ck].locked THEN Fail("EDGE_IS_LOCKED", m.b)
            ELSE Ok([m.b EXCEPT
                        !.current = Delete(@, ck),
                        !.snapshot = Put(@, SnapKey(dirId, name, d.current[ck].creationTime),
                                         [targetId |-> targetId, owned |-> owned])])
    IN  AfterInitiate(initiateDirectoryModification(d, b, time, FALSE, dirId))

\* variant: the lock of the edge is not looked at
softUnlinkCurrentEdge_IgnoresLock(d, b, time, dirId, name, creationTime, targetId, owned) ==
    LET AfterInitiate(m) ==
            LET ck == CurKey(dirId, name)
            IN
            IF m.err # "NO_ERROR" THEN Fail(m.err, b)
            ELSE IF ck \notin DOMAIN d.current THEN Fail("EDGE_NOT_FOUND", m.b)
            ELSE IF d.current[ck].targetId # targetId THEN Fail("MISMATCHING_TARGET", m.b)
            ELSE IF d.current[ck].creationTime # creationTime THEN Fail("MISMATCHING_CREATION_TIME", m.b)
            ELSE Ok([m.b EXCEPT
                        !.current = Delete(@, ck),
                        !.snapshot = Put(Put(@, SnapKey(dirId, name, d.current[ck].creationTime),
                                             [targetId |-> targetId, owned |-> owned]),
                                         SnapKey(dirId, name, time), DeletionEdge)])
    IN  AfterInitiate(initiateDirectoryModification(d, b, time, FALSE, dirId))

softUnlinkCurrentEdge(d, b, time, dirId, name, creationTime, targetId, owned) ==
    LET AfterInitiate(m) ==
            LET ck == CurKey(dirId, name)
            IN
            IF m.err # "NO_ERROR" THEN Fail(m.err, b)
            ELSE IF ck \notin DOMAIN d.current THEN Fail("EDGE_NOT_FOUND", m.b)
            ELSE IF d.current[ck].targetId # targetId THEN Fail("MISMATCHING_TARGET", m.b)
            ELSE IF d.current[ck].creationTime # creationTime THEN Fail("MISMATCHING_CREATION_TIME", m.b)
            ELSE IF d.current[ck].locked THEN Fail("EDGE_IS_LOCKED", m.b)
            ELSE Ok([m.b EXCEPT
                        !.current = Delete(@, ck),
                        !.snapshot = Put(Put(@, SnapKey(dirId, name, d.current[ck].creationTime),
                                             [targetId |-> targetId, owned |-> owned]),
                                         SnapKey(dirId, name, time), DeletionEdge)])
    IN  AfterInitiate(initiateDirectoryModification(d, b, time, FALSE, dirId))

\* variant: the snapshot edge left behind is not owned
applySoftUnlinkFile_NotOwned(d, b, time, entry) ==
    softUnlinkCurrentEdge(d, b, time, entry.ownerId, entry.name, entry.creationTime, entry.fileId, FALSE)

applySoftUnlinkFile(d, b, time, entry) ==
    softUnlinkCurrentEdge(d, b, time, entry.ownerId, entry.name, entry.creationTime, entry.fileId, TRUE)

applySameDirectoryRename(d, b, time, entry) ==
    LET AfterUnlink(u) ==
            LET AfterCreate(c) ==
                    IF u.err # "NO_ERROR" THEN Fail(u.err, u.b)
                       ELSE IF c.err # "NO_ERROR" THEN Fail(c.err, c.b)
                       ELSE Ok(c.b)
            IN  AfterCreate(createCurrentEdge(d, u.b, time, entry.dirId, entry.newName, entry.targetId, FALSE, 0))
    IN  AfterUnlink(softUnlinkCurrentEdge(d, b, time, entry.dirId, entry.oldName, entry.oldCreationTime,
                                   entry.targetId, FALSE))

applySameDirectoryRenameSnapshot(d, b, time, entry) ==
    LET AfterInitiate(m) ==
            LET sk == SnapKey(entry.dirId, entry.oldName, entry.oldCreationTime)
                b1 == [m.b EXCEPT !.snapshot = Put(@, sk, [targetId |-> entry.targetId, owned |-> FALSE])]
            IN
            LET AfterCreate(c) ==
                    IF m.err # "NO_ERROR" THEN Fail(m.err, b)
                    ELSE IF sk \notin DOMAIN d.snapshot THEN Fail("EDGE_NOT_FOUND", m.b)
                    ELSE IF d.snapshot[sk].targetId # entry.targetId THEN Fail("MISMATCHING_TARGET", m.b)
                    ELSE IF ~d.snapshot[sk].owned THEN Fail("EDGE_NOT_OWNED", m.b)
                    ELSE IF c.err # "NO_ERROR" THEN Fail(c.err, c.b)
                    ELSE Ok(c.b)
            IN  AfterCreate(createCurrentEdge(d, b1, time, entry.dirId, entry.newName, entry.targetId, FALSE, 0))
    IN  AfterInitiate(initiateDirectoryModification(d, b, time, FALSE, entry.dirId))

applyCreateLockedCurrentEdge(d, b, time, entry) ==
    LET AfterCreate(c) ==
            IF c.err # "NO_ERROR" THEN Fail(c.err, c.b) ELSE Ok(c.b)
    IN  AfterCreate(createCurrentEdge(d, b, time, entry.dirId, entry.name, entry.targetId, TRUE,
                               entry.oldCreationTime))

applyUnlockCurrentEdge(d, b, time, entry) ==
    LET AfterInitiate(m) ==
            LET ck == CurKey(entry.dirId, entry.name)
                edge == d.current[ck]
                b1 == IF edge.locked
                      THEN [m.b EXCEPT !.current =
                                Put(@, ck, [edge EXCEPT !.targetId = entry.targetId, !.locked = FALSE])]
                      ELSE m.b
                b2 == IF entry.wasMoved
                      THEN [b1 EXCEPT
                                !.current = Delete(@, ck),
                                !.snapshot = Put(Put(@, SnapKey(entry.dirId, entry.name, edge.creationTime),
                                                     [targetId |-> entry.targetId, owned |-> FALSE]),
                                                 SnapKey(entry.dirId, entry.name, time), DeletionEdge)]
                      ELSE b1
            IN
            IF m.err # "NO_ERROR" THEN Fail(m.err, b)
            ELSE IF ck \notin DOMAIN d.current THEN Fail("EDGE_NOT_FOUND", m.b)
            ELSE IF edge.creationTime # entry.creationTime THEN Fail("MISMATCHING_CREATION_TIME", m.b)
            ELSE Ok(b2)
    IN  AfterInitiate(initiateDirectoryModification(d, b, time, FALSE, entry.dirId))

applyLockCurrentEdge(d, b, time, entry) ==
    LET AfterInitiate(m) ==
            LET ck == CurKey(entry.dirId, entry.name)
                edge == d.current[ck]
            IN
            IF m.err # "NO_ERROR" THEN Fail(m.err, b)
            ELSE IF ck \notin DOMAIN d.current THEN Fail("EDGE_NOT_FOUND", m.b)
            ELSE IF edge.creationTime # entry.creationTime THEN Fail("MISMATCHING_CREATION_TIME", m.b)
            ELSE IF ~edge.locked
                THEN Ok([m.b EXCEPT !.current =
                            Put(@, ck, [edge EXCEPT !.targetId = entry.targetId, !.locked = TRUE])])
            ELSE Ok(m.b)
    IN  AfterInitiate(initiateDirectoryModification(d, b, time, FALSE, entry.dirId))

\* --------------------------------------------------- directories, removal
HasCurrentEdge(d, dirId) == \E k \in DOMAIN d.current : k[1] = dirId
HasAnyEdge(d, dirId) == HasCurrentEdge(d, dirId) \/ \E k \in DOMAIN d.snapshot : k[1] = dirId

\* variant: the current edges are not looked at
applyRemoveDirectoryOwner_Unchecked(d, b, time, entry) ==
    LET AfterInitiate(m) ==
            IF m.err # "NO_ERROR" THEN Fail(m.err, b)
            ELSE IF m.dir.ownerId = NULL_INODE_ID THEN Ok(m.b)
            ELSE Ok([m.b EXCEPT !.directories =
                        Put(@, entry.dirId, [ownerId |-> NULL_INODE_ID, mtime |-> time, info |-> entry.info])])
    IN  AfterInitiate(initiateDirectoryModification(d, b, time, TRUE, entry.dirId))

applyRemoveDirectoryOwner(d, b, time, entry) ==
    LET AfterInitiate(m) ==
            IF m.err # "NO_ERROR" THEN Fail(m.err, b)
            ELSE IF m.dir.ownerId = NULL_INODE_ID THEN Ok(m.b)
            ELSE IF HasCurrentEdge(d, entry.dirId) THEN Fail("DIRECTORY_NOT_EMPTY", m.b)
            ELSE Ok([m.b EXCEPT !.directories =
                        Put(@, entry.dirId, [ownerId |-> NULL_INODE_ID, mtime |-> time, info |-> entry.info])])
    IN  AfterInitiate(initiateDirectoryModification(d, b, time, TRUE, entry.dirId))

\* variant: the edges are not looked at
applyRemoveDirectoryInode_Unchecked(d, b, time, entry) ==
    LET AfterInitiate(m) ==
            IF m.err = "DIRECTORY_NOT_FOUND" THEN Ok(b)
            ELSE IF m.err # "NO_ERROR" THEN Fail(m.err, b)
            ELSE IF m.dir.ownerId # NULL_INODE_ID THEN Fail("DIRECTORY_HAS_OWNER", m.b)
            ELSE Ok([m.b EXCEPT !.directories = Delete(@, entry.id)])
    IN  AfterInitiate(initiateDirectoryModification(d, b, time, TRUE, entry.id))

applyRemoveDirectoryInode(d, b, time, entry) ==
    LET AfterInitiate(m) ==
            IF m.err = "DIRECTORY_NOT_FOUND" THEN Ok(b)
            ELSE IF m.err # "NO_ERROR" THEN Fail(m.err, b)
            ELSE IF m.dir.ownerId # NULL_INODE_ID THEN Fail("DIRECTORY_HAS_OWNER", m.b)
            ELSE IF HasAnyEdge(d, entry.id) THEN Fail("DIRECTORY_NOT_EMPTY", m.b)
            ELSE Ok([m.b EXCEPT !.directories = Delete(@, entry.id)])
    IN  AfterInitiate(initiateDirectoryModification(d, b, time, TRUE, entry.id))

applySetDirectoryOwner(d, b, time, entry) ==
    LET AfterInitiate(m) ==
            IF m.err # "NO_ERROR" THEN Fail(m.err, b)
            ELSE Ok([m.b EXCEPT !.directories = Put(@, entry.dirId, [m.dir EXCEPT !.ownerId = entry.ownerId])])
    IN  AfterInitiate(initiateDirectoryModification(d, b, time, TRUE, entry.dirId))

applyRemoveNonOwnedEdge(d, b, time, entry) ==
    LET AfterInitiate(m) ==
            LET sk == SnapKey(entry.dirId, entry.name, entry.creationTime)
            IN
            IF m.err # "NO_ERROR" THEN Fail(m.err, b)
            ELSE IF sk \notin DOMAIN d.snapshot THEN Ok(m.b)
            ELSE IF d.snapshot[sk].owned THEN Fail("EDGE_NOT_FOUND", m.b)
            ELSE Ok([m.b EXCEPT !.snapshot = Delete(@, sk)])
    IN  AfterInitiate(initiateDirectoryModification(d, b, time, TRUE, entry.dirId))

applyRemoveOwnedSnapshotFileEdge(d, b, time, entry) ==
    LET AfterInitiate(m) ==
            IF m.err # "NO_ERROR" THEN Fail(m.err, b)
            ELSE Ok([m.b EXCEPT !.snapshot = Delete(@, SnapKey(entry.ownerId, entry.name, entry.creationTime))])
    IN  AfterInitiate(initiateDirectoryModification(d, b, time, TRUE, entry.ownerId))

\* -------------------------------------------------------------------- files
IsFileType(id) == InodeType(id) = FILE \/ InodeType(id) = SYMLINK

NoFile == [mtime |-> 0, atime |-> 0, fileSize |-> 0]
NoTransient == [fileSize |-> 0, mtime |-> 0, deadline |-> 0, lastSpanState |-> "CLEAN", note |-> ""]

getFile(d, id) ==
    IF ~IsFileType(id) THEN [err |-> "TYPE_IS_DIRECTORY", file |-> NoFile]
    ELSE IF id \notin DOMAIN d.files THEN [err |-> "FILE_NOT_FOUND", file |-> NoFile]
    ELSE [err |-> "NO_ERROR", file |-> d.files[id]]

getTransientFile(d, time, allowPastDeadline, id) ==
    IF ~IsFileType(id) THEN [err |-> "TYPE_IS_DIRECTORY", file |-> NoTransient]
    ELSE IF id \notin DOMAIN d.transient THEN [err |-> "FILE_NOT_FOUND", file |-> NoTransient]
    ELSE IF ~allowPastDeadline /\ time > d.transient[id].deadline
         THEN [err |-> "FILE_NOT_FOUND", file |-> NoTransient]
    ELSE [err |-> "NO_ERROR", file |-> d.transient[id]]

\* variant: the deadline moves whatever allowPastDeadline is
initiateTransientFileModification_AlwaysBumps(interval, d, b, time, allowPastDeadline, id) ==
    LET g == getTransientFile(d, time, allowPastDeadline, id) IN
    IF g.err # "NO_ERROR" THEN [err |-> g.err, b |-> b, tf |-> NoTransient]
    ELSE IF g.file.mtime >= time THEN [err |-> "MTIME_IS_TOO_RECENT", b |-> b, tf |-> NoTransient]
    ELSE LET tf == [g.file EXCEPT !.mtime = time, !.deadline = time + interval]
         IN [err |-> "NO_ERROR", b |-> [b EXCEPT !.transient = Put(@, id, tf)], tf |-> tf]

\* `interval` is the instance's _transientDeadlineInterval
initiateTransientFileModification(interval, d, b, time, allowPastDeadline, id) ==
    LET g == getTransientFile(d, time, allowPastDeadline, id) IN
    IF g.err # "NO_ERROR" THEN [err |-> g.err, b |-> b, tf |-> NoTransient]
    ELSE IF g.file.mtime >= time THEN [err |-> "MTIME_IS_TOO_RECENT", b |-> b, tf |-> NoTransient]
    ELSE LET tf == [g.file EXCEPT !.mtime = time,
                                  !.deadline = IF allowPastDeadline THEN @ ELSE time + interval]
         IN [err |-> "NO_ERROR", b |-> [b EXCEPT !.transient = Put(@, id, tf)], tf |-> tf]

\* _applyConstructFile: an entry whose type is neither FILE nor SYMLINK makes
\* it throw ("Bad type"), before anything is put in the batch
applyConstructFile(d, b, time, entry) ==
    LET id == (IF entry.type = FILE THEN d.nextFileId ELSE d.nextSymlinkId) + 256
        b1 == IF entry.type = FILE THEN [b EXCEPT !.nextFileId = id] ELSE [b EXCEPT !.nextSymlinkId = id]
    IN IF entry.type \notin {FILE, SYMLINK} THEN Fail("EXCEPTION", b)
       ELSE Ok([b1 EXCEPT !.transient =
                  Put(@, id, [fileSize |-> 0, mtime |-> time, deadline |-> entry.deadlineTime,
                              lastSpanState |-> "CLEAN", note |-> entry.note])])

\* variant: a file that is no longer transient is never looked up by its edge
applyLinkFile_NoRetry(d, b, time, entry) ==
    LET g == getTransientFile(d, time, FALSE, entry.fileId)
        b1 == [b EXCEPT !.transient = Delete(@, entry.fileId),
                        !.files = Put(@, entry.fileId,
                                      [mtime |-> time, atime |-> time, fileSize |-> g.file.fileSize])]
    IN
    LET AfterCreate(c) ==
            IF g.err # "NO_ERROR" THEN Fail(g.err, b)
            ELSE IF g.file.lastSpanState # "CLEAN" THEN Fail("LAST_SPAN_STATE_NOT_CLEAN", b)
            ELSE IF c.err # "NO_ERROR" THEN Fail(c.err, c.b)
            ELSE Ok(c.b)
    IN  AfterCreate(createCurrentEdge(d, b1, time, entry.ownerId, entry.name, entry.fileId, FALSE, 0))

applyLinkFile(d, b, time, entry) ==
    LET g == getTransientFile(d, time, FALSE, entry.fileId)
        ck == CurKey(entry.ownerId, entry.name)
        b1 == [b EXCEPT !.transient = Delete(@, entry.fileId),
                        !.files = Put(@, entry.fileId,
                                      [mtime |-> time, atime |-> time, fileSize |-> g.file.fileSize])]
    IN
    LET AfterCreate(c) ==
            IF g.err = "FILE_NOT_FOUND" THEN
                IF getDirectory(d, entry.ownerId, FALSE).err # "NO_ERROR" THEN Fail(g.err, b)
                ELSE IF ck \notin DOMAIN d.current THEN Fail(g.err, b)
                ELSE IF d.current[ck].targetId # entry.fileId THEN Fail(g.err, b)
                ELSE Ok(b)
            ELSE IF g.err # "NO_ERROR" THEN Fail(g.err, b)
            ELSE IF g.file.lastSpanState # "CLEAN" THEN Fail("LAST_SPAN_STATE_NOT_CLEAN", b)
            ELSE IF c.err # "NO_ERROR" THEN Fail(c.err, c.b)
            ELSE Ok(c.b)
    IN  AfterCreate(createCurrentEdge(d, b1, time, entry.ownerId, entry.name, entry.fileId, FALSE, 0))

HasSpan(d, id) == \E k \in DOMAIN d.spans : k[1] = id

\* variant: the spans of the file are not looked for
applyRemoveFileInode_WithSpans(d, b, time, entry) ==
    LET g == getTransientFile(d, time, TRUE, entry.id)
        f == getFile(d, entry.id)
    IN
    IF ~IsFileType(entry.id) THEN Fail("CRASH", b)
    ELSE IF g.err = "FILE_NOT_FOUND" THEN
        IF f.err = "NO_ERROR" THEN Fail("FILE_IS_NOT_TRANSIENT", b)
        ELSE IF f.err = "FILE_NOT_FOUND" THEN Ok(b)
        ELSE Fail(f.err, b)
    ELSE IF g.err # "NO_ERROR" THEN Fail(g.err, b)
    ELSE IF g.file.deadline >= time THEN Fail("DEADLINE_NOT_PASSED", b)
    ELSE Ok([b EXCEPT !.transient = Delete(@, entry.id)])

applyRemoveFileInode(d, b, time, entry) ==
    LET g == getTransientFile(d, time, TRUE, entry.id)
        f == getFile(d, entry.id)
    IN
    \* ALWAYS_ASSERT(entry.id.type() == FILE || entry.id.type() == SYMLINK)
    IF ~IsFileType(entry.id) THEN Fail("CRASH", b)
    ELSE IF g.err = "FILE_NOT_FOUND" THEN
        IF f.err = "NO_ERROR" THEN Fail("FILE_IS_NOT_TRANSIENT", b)
        ELSE IF f.err = "FILE_NOT_FOUND" THEN Ok(b)
        ELSE Fail(f.err, b)
    ELSE IF g.err # "NO_ERROR" THEN Fail(g.err, b)
    ELSE IF g.file.deadline >= time THEN Fail("DEADLINE_NOT_PASSED", b)
    ELSE IF HasSpan(d, entry.id) THEN Fail("FILE_NOT_EMPTY", b)
    ELSE Ok([b EXCEPT !.transient = Delete(@, entry.id)])

applyRemoveInode(d, b, time, entry) ==
    IF InodeType(entry.id) = DIRECTORY
    THEN applyRemoveDirectoryInode(d, b, time, entry)
    ELSE applyRemoveFileInode(d, b, time, entry)

applyMakeFileTransient(d, b, time, entry) ==
    LET f == getFile(d, entry.id) IN
    IF f.err = "FILE_NOT_FOUND" /\ getTransientFile(d, time, TRUE, entry.id).err = "NO_ERROR" THEN Ok(b)
    ELSE IF f.err # "NO_ERROR" THEN Fail(f.err, b)
    ELSE Ok([b EXCEPT !.files = Delete(@, entry.id),
                      !.transient = Put(@, entry.id,
                            [fileSize |-> f.file.fileSize, mtime |-> time, deadline |-> entry.deadlineTime,
                             lastSpanState |-> "CLEAN", note |-> entry.note])])

applyScrapTransientFile(d, b, time, entry) ==
    LET g == getTransientFile(d, time, TRUE, entry.id) IN
    IF g.err # "NO_ERROR" THEN Fail(g.err, b)
    ELSE Ok([b EXCEPT !.transient = Put(@, entry.id, [g.file EXCEPT !.deadline = entry.deadlineTime])])

\* _applySameShardHardFileUnlink drops the error of
\* _initiateDirectoryModification and reads dir().hashMode() although `dir`
\* was never assigned when that call failed: undefined behaviour.  `ub` is
\* what the build makes of it: the process dies ("crash"), the hash mode read
\* is XXH3_63 by chance ("hash_ok"), or it is not and the key computed names
\* no edge ("hash_bad").
applySameShardHardFileUnlink(d, b, time, entry) ==
    LET f == getFile(d, entry.targetId)
        t == getTransientFile(d, time, TRUE, entry.targetId)
    IN
    LET AfterInitiate(m) ==
            LET sk == SnapKey(entry.ownerId, entry.name, entry.creationTime)
            IN
            IF f.err = "FILE_NOT_FOUND" THEN (IF t.err = "NO_ERROR" THEN Ok(b) ELSE Fail(t.err, b))
            ELSE IF f.err # "NO_ERROR" THEN Fail(f.err, b)
            ELSE IF m.err # "NO_ERROR" /\ entry.ub = "crash" THEN Fail("CRASH", b)
            ELSE IF m.err # "NO_ERROR" /\ entry.ub = "hash_bad" THEN Fail("EDGE_NOT_FOUND", b)
            ELSE IF sk \notin DOMAIN d.snapshot THEN Fail("EDGE_NOT_FOUND", m.b)
            ELSE IF ~d.snapshot[sk].owned THEN Fail("EDGE_NOT_FOUND", m.b)
            ELSE Ok([m.b EXCEPT
                        !.snapshot = Delete(@, sk),
                        !.files = Delete(@, entry.targetId),
                        !.transient = Put(@, entry.targetId,
                            [fileSize |-> f.file.fileSize, mtime |-> time, deadline |-> entry.deadlineTime,
                             lastSpanState |-> "CLEAN", note |-> entry.name])])
    IN  AfterInitiate(initiateDirectoryModification(d, b, time, TRUE, entry.ownerId))

SpanKey(fileId, offset) == <<fileId, offset>>

applyAddInlineSpan(interval, d, b, time, entry) ==
    LET AfterInitiate(m) ==
            LET sk == SpanKey(entry.fileId, entry.byteOffset)
                span == [spanSize |-> entry.size, inline |-> TRUE, crc |-> entry.crc, body |-> entry.body]
            IN
            IF m.err # "NO_ERROR" THEN Fail(m.err, b)
            ELSE IF entry.body = "" THEN Ok(m.b)
            ELSE IF m.tf.fileSize # entry.byteOffset THEN
                IF m.tf.fileSize = entry.byteOffset + entry.size
                THEN IF sk \notin DOMAIN d.spans THEN Fail("SPAN_NOT_FOUND", m.b)
                     ELSE IF d.spans[sk] # span THEN Fail("SPAN_NOT_FOUND", m.b)
                     ELSE Ok(m.b)
                ELSE Fail("SPAN_NOT_FOUND", m.b)
            ELSE IF m.tf.lastSpanState # "CLEAN" THEN Fail("LAST_SPAN_STATE_NOT_CLEAN", m.b)
            ELSE Ok([m.b EXCEPT
                        !.transient = Put(@, entry.fileId, [m.tf EXCEPT !.fileSize = entry.byteOffset + entry.size]),
                        !.spans = Put(@, sk, span)])
    IN  AfterInitiate(initiateTransientFileModification(interval, d, b, time, FALSE, entry.fileId))

\* ------------------------------------------------------------ blocked spans
\* A blocked span body: [spanSize, inline |-> FALSE, crc, locations], each
\* location [location, storageClass, parity, stripes, cellSize, blocks], each
\* block [blockService, blockId, crc].  Parity is <<data blocks, parity blocks>>.
\* Stripe crcs are carried through untouched and left out.
TERNFS_PAGE_SIZE == 4096

\* the location of the spans added by entries that name none
DEFAULT_LOCATION == 0

ParityBlocks(parity) == parity[1] + parity[2]

\* _blockServicesCache: the key and the failure domain of a block service
\* (two block services to a failure domain)
SecretKey(blockServiceId) == <<"key", blockServiceId>>
FailureDomain(blockServiceId) == <<"fd", (blockServiceId + 1) \div 2>>

\* cbcmac under a key, of the packed message: a tag that names both
cbcmac(secretKey, message) == <<secretKey, message>>

blockWriteCertificate(blockSize, block) ==
    cbcmac(SecretKey(block.blockService), <<block.blockService, "w", block.blockId, block.crc, blockSize>>)

blockEraseCertificate(block) ==
    cbcmac(SecretKey(block.blockService), <<block.blockService, "e", block.blockId>>)

\* variant: the proof's tag is not looked at
checkBlockAddProof_Unchecked(blockServiceId, proof) == TRUE

checkBlockAddProof(blockServiceId, proof) ==
    proof.proof = cbcmac(SecretKey(blockServiceId), <<blockServiceId, "W", proof.blockId>>)

\* variant: the proof's tag is not looked at
checkBlockDeleteProof_Unchecked(blockServiceId, proof) == TRUE

checkBlockDeleteProof(blockServiceId, proof) ==
    proof.proof = cbcmac(SecretKey(blockServiceId), <<blockServiceId, "E", proof.blockId>>)

Max2(x, y) == IF x >= y THEN x ELSE y

\* variant: the id is made from the time alone
updateNextBlockId_TimeOnly(time, nextBlockId) ==
    SHID + (time \div 256) * 256

\* time is embedded into the id, other than the low byte, which is the shard
updateNextBlockId(time, nextBlockId) ==
    Max2(nextBlockId + 256, SHID + (time \div 256) * 256)

\* the id of the i-th block made by one _applyAddSpanInitiate
RECURSIVE blockIdAt(_, _, _)
blockIdAt(time, nextBlockId, i) ==
    IF i = 0 THEN nextBlockId ELSE updateNextBlockId(time, blockIdAt(time, nextBlockId, i - 1))

\* variant: the merge drops the delta
addBlockServicesToFiles_Dropped(b, blockServiceId, fileId, delta) == b

\* batch.Merge with the integer-add operator
addBlockServicesToFiles(b, blockServiceId, fileId, delta) ==
    LET k == <<blockServiceId, fileId>> IN
    [b EXCEPT !.bsToFiles = Put(@, k, (IF k \in DOMAIN @ THEN @[k] ELSE 0) + delta)]

\* one merge of `delta` for every block of `blocks`, in order
RECURSIVE addBlocksToFile(_, _, _, _)
addBlocksToFile(b, blocks, fileId, delta) ==
    IF blocks = <<>> THEN b
    ELSE addBlocksToFile(addBlockServicesToFiles(b, Head(blocks).blockService, fileId, delta),
                         Tail(blocks), fileId, delta)

\* every block of every location of a blocked span, in order
RECURSIVE AllBlocks(_)
AllBlocks(locations) ==
    IF locations = <<>> THEN <<>> ELSE Head(locations).blocks \o AllBlocks(Tail(locations))

\* _fillInAddSpanInitiate
fillInAddSpanInitiate(loc) ==
    [i \in 1..Len(loc.blocks) |->
        [blockServiceId |-> loc.blocks[i].blockService, blockId |-> loc.blocks[i].blockId,
         certificate |-> blockWriteCertificate(loc.cellSize * loc.stripes, loc.blocks[i])]]

OkBlocks(b, blocks) == [err |-> "NO_ERROR", b |-> b, blocks |-> blocks]

applyAddSpanInitiate(interval, d, b, time, entry) ==
    LET AfterInitiate(m) ==
            LET sk == SpanKey(entry.fileId, entry.byteOffset)
                n == ParityBlocks(entry.parity)
                loc == [location |-> entry.locationId, storageClass |-> entry.storageClass,
                        parity |-> entry.parity, stripes |-> entry.stripes, cellSize |-> entry.cellSize,
                        blocks |-> [i \in 1..n |->
                            [blockService |-> entry.bodyBlocks[i].blockServiceId,
                             blockId |-> blockIdAt(time, d.nextBlockId, i),
                             crc |-> entry.bodyBlocks[i].crc]]]
                spanBody == [spanSize |-> entry.size, inline |-> FALSE, crc |-> entry.crc,
                             locations |-> <<loc>>]
            IN
            IF m.err # "NO_ERROR" THEN Fail(m.err, b)
            ELSE IF m.tf.fileSize # entry.byteOffset THEN
                IF m.tf.fileSize = entry.byteOffset + entry.size
                THEN IF sk \notin DOMAIN d.spans THEN Fail("SPAN_NOT_FOUND", m.b)
                     ELSE IF \/ d.spans[sk].spanSize # entry.size
                             \/ d.spans[sk].inline
                             \/ d.spans[sk].crc # entry.crc
                          THEN Fail("SPAN_NOT_FOUND", m.b)
                     ELSE IF \/ Len(d.spans[sk].locations) # 1
                             \/ d.spans[sk].locations[1].cellSize # entry.cellSize
                             \/ d.spans[sk].locations[1].stripes # entry.stripes
                             \/ d.spans[sk].locations[1].parity # entry.parity
                             \/ d.spans[sk].locations[1].location # entry.locationId
                          THEN Fail("SPAN_NOT_FOUND", m.b)
                     ELSE OkBlocks(m.b, fillInAddSpanInitiate(d.spans[sk].locations[1]))
                ELSE Fail("SPAN_NOT_FOUND", m.b)
            ELSE IF m.tf.lastSpanState # "CLEAN" THEN Fail("LAST_SPAN_STATE_NOT_CLEAN", m.b)
            ELSE OkBlocks(
                    addBlocksToFile(
                        [m.b EXCEPT
                            !.transient = Put(@, entry.fileId,
                                [m.tf EXCEPT !.fileSize = entry.byteOffset + entry.size,
                                             !.lastSpanState = "DIRTY"]),
                            !.nextBlockId = blockIdAt(time, d.nextBlockId, n),
                            !.spans = Put(@, sk, spanBody)],
                        loc.blocks, entry.fileId, 1),
                    fillInAddSpanInitiate(loc))
    IN  AfterInitiate(initiateTransientFileModification(interval, d, b, time, FALSE, entry.fileId))

\* variant: the tail is marked clean whatever the proofs
applyAddSpanCertify_Unchecked(interval, d, b, time, entry) ==
    LET AfterInitiate(m) ==
            IF m.err # "NO_ERROR" THEN Fail(m.err, b)
            ELSE IF SpanKey(entry.fileId, entry.byteOffset) \notin DOMAIN d.spans
                 THEN Fail("SPAN_NOT_FOUND", m.b)
            ELSE Ok([m.b EXCEPT !.transient = Put(@, entry.fileId, [m.tf EXCEPT !.lastSpanState = "CLEAN"])])
    IN  AfterInitiate(initiateTransientFileModification(interval, d, b, time, FALSE, entry.fileId))

applyAddSpanCertify(interval, d, b, time, entry) ==
    LET AfterInitiate(m) ==
            LET sk == SpanKey(entry.fileId, entry.byteOffset) IN
            IF m.err # "NO_ERROR" THEN Fail(m.err, b)
            ELSE IF sk \notin DOMAIN d.spans THEN Fail("SPAN_NOT_FOUND", m.b)
            ELSE IF m.tf.fileSize > entry.byteOffset + d.spans[sk].spanSize THEN Ok(m.b)
            ELSE IF m.tf.lastSpanState = "CLEAN" THEN Ok(m.b)
            ELSE IF m.tf.lastSpanState = "CONDEMNED" THEN Fail("SPAN_NOT_FOUND", m.b)
            ELSE IF d.spans[sk].inline THEN Fail("CANNOT_CERTIFY_BLOCKLESS_SPAN", m.b)
            ELSE IF Len(d.spans[sk].locations) # 1 THEN Fail("CRASH", m.b)
            ELSE IF Len(d.spans[sk].locations[1].blocks) # Len(entry.proofs)
                 THEN Fail("BAD_NUMBER_OF_BLOCKS_PROOFS", m.b)
            ELSE IF \E i \in 1..Len(entry.proofs) :
                        ~checkBlockAddProof(d.spans[sk].locations[1].blocks[i].blockService, entry.proofs[i])
                 THEN Fail("BAD_BLOCK_PROOF", m.b)
            ELSE Ok([m.b EXCEPT !.transient = Put(@, entry.fileId, [m.tf EXCEPT !.lastSpanState = "CLEAN"])])
    IN  AfterInitiate(initiateTransientFileModification(interval, d, b, time, FALSE, entry.fileId))

\* SeekForPrev((fileId, fileSize)) in the spans of the whole shard: the key
\* of the last span at or before it, <<>> when there is none
SeekForPrevSpan(d, fileId, offset) ==
    LET before == {k \in DOMAIN d.spans : k[1] < fileId \/ (k[1] = fileId /\ k[2] <= offset)}
    IN  IF before = {} THEN <<>>
        ELSE CHOOSE k \in before : \A x \in before : x[1] < k[1] \/ (x[1] = k[1] /\ x[2] <= k[2])

\* the erase certificates of the response, one per block of every location
fillInRemoveSpanInitiate(span) ==
    LET blocks == AllBlocks(span.locations) IN
    [i \in 1..Len(blocks) |->
        [blockServiceId |-> blocks[i].blockService, blockId |-> blocks[i].blockId,
         certificate |-> blockEraseCertificate(blocks[i])]]

applyRemoveSpanInitiate(interval, d, b, time, entry) ==
    LET AfterInitiate(m) ==
            LET sk == SeekForPrevSpan(d, entry.fileId, m.tf.fileSize) IN
            IF m.err # "NO_ERROR" THEN Fail(m.err, b)
            ELSE IF m.tf.fileSize = 0 THEN Fail("FILE_EMPTY", m.b)
            ELSE IF sk = <<>> THEN Fail("CRASH", m.b)
            ELSE IF sk[1] # entry.fileId THEN Fail("CRASH", m.b)
            ELSE IF d.spans[sk].inline
                 THEN OkBlocks([m.b EXCEPT !.spans = Delete(@, sk),
                                           !.transient = Put(@, entry.fileId, [m.tf EXCEPT !.fileSize = sk[2]])],
                               <<>>)
            ELSE OkBlocks([m.b EXCEPT !.transient =
                                Put(@, entry.fileId, [m.tf EXCEPT !.lastSpanState = "CONDEMNED"])],
                          fillInRemoveSpanInitiate(d.spans[sk]))
    IN  AfterInitiate(initiateTransientFileModification(interval, d, b, time, TRUE, entry.fileId))

\* the proof loop of _applyRemoveSpanCertify over the locations left and the
\* proofs left: the error it stops at
RECURSIVE verifyDeleteProofs(_, _)
verifyDeleteProofs(locations, proofs) ==
    IF locations = <<>>
    THEN IF proofs # <<>> THEN "BAD_NUMBER_OF_BLOCKS_PROOFS" ELSE "NO_ERROR"
    ELSE LET blocks == Head(locations).blocks IN
         IF Len(proofs) < Len(blocks) THEN "BAD_NUMBER_OF_BLOCKS_PROOFS"
         ELSE IF \E i \in 1..Len(blocks) :
                    \/ blocks[i].blockId # proofs[i].blockId
                    \/ ~checkBlockDeleteProof(blocks[i].blockService, proofs[i])
              THEN "BAD_BLOCK_PROOF"
         ELSE verifyDeleteProofs(Tail(locations), SubSeq(proofs, Len(blocks) + 1, Len(proofs)))

\* variant: the span is deleted whatever the state and the proofs
applyRemoveSpanCertify_Unchecked(interval, d, b, time, entry) ==
    LET AfterInitiate(m) ==
            LET sk == SpanKey(entry.fileId, entry.byteOffset) IN
            IF m.err # "NO_ERROR" THEN Fail(m.err, b)
            ELSE IF sk \notin DOMAIN d.spans THEN Ok(m.b)
            ELSE IF d.spans[sk].inline THEN Fail("CANNOT_CERTIFY_BLOCKLESS_SPAN", m.b)
            ELSE Ok(addBlocksToFile(
                        [m.b EXCEPT !.spans = Delete(@, sk),
                                    !.transient = Put(@, entry.fileId,
                                        [m.tf EXCEPT !.lastSpanState = "CLEAN", !.fileSize = sk[2]])],
                        AllBlocks(d.spans[sk].locations), entry.fileId, -1))
    IN  AfterInitiate(initiateTransientFileModification(interval, d, b, time, TRUE, entry.fileId))

applyRemoveSpanCertify(interval, d, b, time, entry) ==
    LET AfterInitiate(m) ==
            LET sk == SpanKey(entry.fileId, entry.byteOffset) IN
            IF m.err # "NO_ERROR" THEN Fail(m.err, b)
            ELSE IF sk \notin DOMAIN d.spans THEN Ok(m.b)
            ELSE IF d.spans[sk].inline THEN Fail("CANNOT_CERTIFY_BLOCKLESS_SPAN", m.b)
            ELSE IF m.tf.lastSpanState # "CONDEMNED" THEN Fail("SPAN_NOT_FOUND", m.b)
            ELSE IF verifyDeleteProofs(d.spans[sk].locations, entry.proofs) # "NO_ERROR"
                 THEN Fail(verifyDeleteProofs(d.spans[sk].locations, entry.proofs), m.b)
            ELSE Ok(addBlocksToFile(
                        [m.b EXCEPT !.spans = Delete(@, sk),
                                    !.transient = Put(@, entry.fileId,
                                        [m.tf EXCEPT !.lastSpanState = "CLEAN", !.fileSize = sk[2]])],
                        AllBlocks(d.spans[sk].locations), entry.fileId, -1))
    IN  AfterInitiate(initiateTransientFileModification(interval, d, b, time, TRUE, entry.fileId))

\* _fetchSpan
fetchSpan(d, fileId, byteOffset) == SpanKey(fileId, byteOffset) \in DOMAIN d.spans

\* SpanBody::size(), the length in bytes of the stored body of a blocked span:
\* version, span size, crc and location count, then for each location its
\* header (location, storage class, parity, stripes, cell size), its blocks
\* (block service, block id, crc) and its stripe crcs
RECURSIVE LocationsSize(_)
LocationsSize(locations) ==
    IF locations = <<>> THEN 0
    ELSE 9 + 20 * Len(Head(locations).blocks) + 4 * Head(locations).stripes
           + LocationsSize(Tail(locations))

SpanBodySize(span) == 10 + LocationsSize(span.locations)

\* _fetchSpanState: "CRASH" stands for its ALWAYS_ASSERTs
fetchSpanState(d, time, fileId, spanEnd) ==
    LET f == getFile(d, fileId)
        t == getTransientFile(d, time, TRUE, fileId)
    IN  IF f.err \notin {"NO_ERROR", "FILE_NOT_FOUND"} THEN "CRASH"
        ELSE IF f.err = "NO_ERROR" THEN "CLEAN"
        ELSE IF t.err # "NO_ERROR" THEN "CRASH"
        ELSE IF spanEnd = t.file.fileSize THEN t.file.lastSpanState
        ELSE "CLEAN"

\* findBlock of _applySwapBlocks: <<location index, block index>> of the
\* first block with this id, <<0, 0>> when there is none
findBlock(span, blockId) ==
    LET all == UNION {{<<l, i>> : i \in 1..Len(span.locations[l].blocks)} : l \in 1..Len(span.locations)}
        hits == {ix \in all : span.locations[ix[1]].blocks[ix[2]].blockId = blockId}
    IN  IF hits = {} THEN <<0, 0>>
        ELSE CHOOSE ix \in hits : \A x \in hits : ix[1] < x[1] \/ (ix[1] = x[1] /\ ix[2] <= x[2])

\* variant: no block of the location is compared with the new block
checkNoDuplicateBlockServicesOrFailureDomains_Unchecked(loc, blockToBeReplacedIx, newBlock) ==
    "NO_ERROR"

\* checkNoDuplicateBlockServicesOrFailureDomains: the error of the first
\* other block of the location that clashes with the new block
checkNoDuplicateBlockServicesOrFailureDomains(loc, blockToBeReplacedIx, newBlock) ==
    LET clash(i) == \/ loc.blocks[i].blockService = newBlock.blockService
                    \/ FailureDomain(loc.blocks[i].blockService) = FailureDomain(newBlock.blockService)
        clashes == {i \in 1..Len(loc.blocks) : i # blockToBeReplacedIx /\ clash(i)}
    IN  IF clashes = {} THEN "NO_ERROR"
        ELSE IF loc.blocks[CHOOSE i \in clashes : \A j \in clashes : i <= j].blockService
                    = newBlock.blockService
             THEN "SWAP_BLOCKS_DUPLICATE_BLOCK_SERVICE"
        ELSE "SWAP_BLOCKS_DUPLICATE_FAILURE_DOMAIN"

\* swapBlocks: the span with the block at `ix` replaced
withBlock(span, ix, block) ==
    [span EXCEPT !.locations[ix[1]].blocks[ix[2]] = block]

applySwapBlocks(d, b, time, entry) ==
    LET k1 == SpanKey(entry.fileId1, entry.byteOffset1)
        k2 == SpanKey(entry.fileId2, entry.byteOffset2)
    IN
    IF ~fetchSpan(d, entry.fileId1, entry.byteOffset1) THEN Fail("SPAN_NOT_FOUND", b)
    ELSE IF ~fetchSpan(d, entry.fileId2, entry.byteOffset2) THEN Fail("SPAN_NOT_FOUND", b)
    ELSE IF d.spans[k1].inline \/ d.spans[k2].inline THEN Fail("SWAP_BLOCKS_INLINE_STORAGE", b)
    ELSE
    LET span1 == d.spans[k1]
        span2 == d.spans[k2]
        state1 == fetchSpanState(d, time, entry.fileId1, entry.byteOffset1 + SpanBodySize(span1))
        state2 == fetchSpanState(d, time, entry.fileId2, entry.byteOffset2 + SpanBodySize(span2))
        ix1 == findBlock(span1, entry.blockId1)
        ix2 == findBlock(span2, entry.blockId2)
    IN
    IF state1 = "CRASH" \/ state2 = "CRASH" THEN Fail("CRASH", b)
    ELSE IF state1 # state2 THEN Fail("SWAP_BLOCKS_MISMATCHING_STATE", b)
    ELSE IF ix1[1] = 0 \/ ix2[1] = 0 THEN
        IF /\ ix1[1] = 0 /\ ix2[1] = 0
           /\ findBlock(span1, entry.blockId2)[1] > 0
           /\ findBlock(span2, entry.blockId1)[1] > 0
        THEN Ok(b)
        ELSE Fail("BLOCK_NOT_FOUND", b)
    ELSE
    LET blocks1 == span1.locations[ix1[1]]
        blocks2 == span2.locations[ix2[1]]
        block1 == blocks1.blocks[ix1[2]]
        block2 == blocks2.blocks[ix2[2]]
        e1 == checkNoDuplicateBlockServicesOrFailureDomains(blocks1, ix1[2], block2)
        e2 == checkNoDuplicateBlockServicesOrFailureDomains(blocks2, ix2[2], block1)
    IN
    IF blocks1.cellSize * blocks1.stripes # blocks2.cellSize * blocks2.stripes
    THEN Fail("SWAP_BLOCKS_MISMATCHING_SIZE", b)
    ELSE IF block1.crc # block2.crc THEN Fail("SWAP_BLOCKS_MISMATCHING_CRC", b)
    ELSE IF blocks1.location # blocks2.location THEN Fail("SWAP_BLOCKS_MISMATCHING_LOCATION", b)
    ELSE IF e1 # "NO_ERROR" THEN Fail(e1, b)
    ELSE IF e2 # "NO_ERROR" THEN Fail(e2, b)
    ELSE Ok([addBlockServicesToFiles(
                addBlockServicesToFiles(
                    addBlockServicesToFiles(
                        addBlockServicesToFiles(b, block1.blockService, entry.fileId1, -1),
                        block2.blockService, entry.fileId1, 1),
                    block1.blockService, entry.fileId2, 1),
                block2.blockService, entry.fileId2, -1)
             EXCEPT !.spans = Put(Put(@, k1, withBlock(span1, ix1, block2)),
                                  k2, withBlock(span2, ix2, block1))])

\* blocksMatch of _applySwapSpans, for a list no longer than the blocks of the
\* span's first location: the inner loop runs over the whole list, so the list
\* is compared with the first location's blocks and a second location finds
\* no room left
blocksMatch(span, blocks) ==
    /\ Len(span.locations) = 1
    /\ Len(span.locations[1].blocks) = Len(blocks)
    /\ \A i \in 1..Len(blocks) : span.locations[1].blocks[i].blockId = blocks[i]

applySwapSpans(d, b, time, entry) ==
    LET k1 == SpanKey(entry.fileId1, entry.byteOffset1)
        k2 == SpanKey(entry.fileId2, entry.byteOffset2)
    IN
    IF ~fetchSpan(d, entry.fileId1, entry.byteOffset1) THEN Fail("SPAN_NOT_FOUND", b)
    ELSE IF ~fetchSpan(d, entry.fileId2, entry.byteOffset2) THEN Fail("SPAN_NOT_FOUND", b)
    ELSE IF d.spans[k1].inline \/ d.spans[k2].inline THEN Fail("SWAP_SPANS_INLINE_STORAGE", b)
    ELSE
    LET span1 == d.spans[k1]
        span2 == d.spans[k2]
        state1 == fetchSpanState(d, time, entry.fileId1, entry.byteOffset1 + SpanBodySize(span1))
        state2 == fetchSpanState(d, time, entry.fileId2, entry.byteOffset2 + SpanBodySize(span2))
    IN
    IF span1.spanSize # span2.spanSize THEN Fail("SWAP_SPANS_MISMATCHING_SIZE", b)
    ELSE IF span1.crc # span2.crc THEN Fail("SWAP_SPANS_MISMATCHING_CRC", b)
    ELSE IF state1 = "CRASH" \/ state2 = "CRASH" THEN Fail("CRASH", b)
    ELSE IF state1 # "CLEAN" \/ state2 # "CLEAN" THEN Fail("SWAP_SPANS_NOT_CLEAN", b)
    ELSE IF blocksMatch(span1, entry.blocks2) /\ blocksMatch(span2, entry.blocks1) THEN Ok(b)
    ELSE IF ~(blocksMatch(span1, entry.blocks1) /\ blocksMatch(span2, entry.blocks2))
         THEN Fail("SWAP_SPANS_MISMATCHING_BLOCKS", b)
    ELSE Ok([addBlocksToFile(
                addBlocksToFile(
                    addBlocksToFile(
                        addBlocksToFile(b, AllBlocks(span1.locations), entry.fileId2, 1),
                        AllBlocks(span1.locations), entry.fileId1, -1),
                    AllBlocks(span2.locations), entry.fileId1, 1),
                AllBlocks(span2.locations), entry.fileId2, -1)
             EXCEPT !.spans = Put(Put(@, k1, span2), k2, span1)])

\* variant: the span moves to the destination but the source keeps its state
applyMoveSpan_SourceStaysDirty(interval, d, b, time, entry) ==
    LET sk == SpanKey(entry.fileId1, entry.byteOffset1) IN
    IF \/ entry.fileId1 \notin DOMAIN d.transient
       \/ entry.fileId2 \notin DOMAIN d.transient
       \/ sk \notin DOMAIN d.spans
    THEN Fail("SPAN_NOT_FOUND", b)
    ELSE IF \/ d.transient[entry.fileId1].lastSpanState # "DIRTY"
            \/ d.transient[entry.fileId1].fileSize # entry.byteOffset1 + entry.spanSize
            \/ d.transient[entry.fileId2].lastSpanState # "CLEAN"
            \/ d.transient[entry.fileId2].fileSize # entry.byteOffset2
            \/ entry.fileId1 = entry.fileId2
         THEN Fail("SPAN_NOT_FOUND", b)
    ELSE Ok([b EXCEPT
                !.spans = Put(Delete(@, sk), SpanKey(entry.fileId2, entry.byteOffset2), d.spans[sk]),
                !.transient = Put(
                    Put(@, entry.fileId1,
                        [d.transient[entry.fileId1] EXCEPT !.fileSize = @ - d.spans[sk].spanSize, !.mtime = time]),
                    entry.fileId2,
                    [d.transient[entry.fileId2] EXCEPT !.fileSize = @ + d.spans[sk].spanSize,
                                                       !.lastSpanState = "DIRTY", !.mtime = time])])

applyMoveSpan(interval, d, b, time, entry) ==
    LET AfterInitiate(m) ==
            LET AfterInitiate2(m2) ==
                    LET sk == SpanKey(entry.fileId1, entry.byteOffset1) IN
                    IF m2.err # "NO_ERROR" THEN Fail(m2.err, m.b)
                    ELSE IF /\ m.tf.fileSize = entry.byteOffset1 /\ m.tf.lastSpanState = "CLEAN"
                            /\ m2.tf.fileSize = entry.byteOffset2 + entry.spanSize
                            /\ m2.tf.lastSpanState = "DIRTY"
                         THEN Ok(m2.b)
                    ELSE IF \/ m.tf.lastSpanState # "DIRTY"
                            \/ m.tf.fileSize # entry.byteOffset1 + entry.spanSize
                            \/ m2.tf.lastSpanState # "CLEAN"
                            \/ m2.tf.fileSize # entry.byteOffset2
                         THEN Fail("SPAN_NOT_FOUND", m2.b)
                    ELSE IF sk \notin DOMAIN d.spans THEN Fail("SPAN_NOT_FOUND", m2.b)
                    ELSE IF d.spans[sk].spanSize # entry.spanSize THEN Fail("SPAN_NOT_FOUND", m2.b)
                    ELSE IF d.spans[sk].inline THEN Fail("CRASH", m2.b)
                    ELSE IF Len(d.spans[sk].locations) # 1 THEN Fail("CRASH", m2.b)
                    ELSE Ok(addBlocksToFile(
                                addBlocksToFile(
                                    [m2.b EXCEPT
                                        !.spans = Put(Delete(@, sk),
                                                      SpanKey(entry.fileId2, entry.byteOffset2), d.spans[sk]),
                                        !.transient = Put(
                                            Put(@, entry.fileId1,
                                                [m.tf EXCEPT !.fileSize = @ - d.spans[sk].spanSize,
                                                             !.lastSpanState = "CLEAN"]),
                                            entry.fileId2,
                                            [m2.tf EXCEPT !.fileSize = @ + d.spans[sk].spanSize,
                                                          !.lastSpanState = "DIRTY"])],
                                    d.spans[sk].locations[1].blocks, entry.fileId1, -1),
                                d.spans[sk].locations[1].blocks, entry.fileId2, 1))
            IN  IF m.err # "NO_ERROR" THEN Fail(m.err, b)
                ELSE AfterInitiate2(initiateTransientFileModification(interval, d, m.b, time, TRUE, entry.fileId2))
    IN  AfterInitiate(initiateTransientFileModification(interval, d, b, time, TRUE, entry.fileId1))

\* SpanBody::findBlocksLocIdx: the location whose blocks have these ids, 0
\* when there is none
findBlocksLocIdx(span, blocks) ==
    LET hits == {l \in 1..Len(span.locations) :
                    /\ Len(span.locations[l].blocks) = Len(blocks)
                    /\ \A i \in 1..Len(blocks) : span.locations[l].blocks[i].blockId = blocks[i]}
    IN  IF hits = {} THEN 0 ELSE CHOOSE l \in hits : \A x \in hits : l <= x

\* variant: the locations of the destination span are not looked at
applyAddSpanLocation_AnyLocation(interval, d, b, time, entry) ==
    LET destinationFile == getFile(d, entry.fileId2)
        dk == SpanKey(entry.fileId2, entry.byteOffset2)
        sk == SpanKey(entry.fileId1, entry.byteOffset1)
    IN
    LET AfterInitiate(m) ==
            IF destinationFile.err # "NO_ERROR" THEN Fail(destinationFile.err, b)
            ELSE IF m.err # "NO_ERROR" THEN Fail(m.err, b)
            ELSE IF m.tf.lastSpanState # "CLEAN" THEN Fail("LAST_SPAN_STATE_NOT_CLEAN", m.b)
            ELSE IF ~fetchSpan(d, entry.fileId2, entry.byteOffset2) THEN Fail("SPAN_NOT_FOUND", m.b)
            ELSE IF d.spans[dk].inline THEN Fail("ADD_SPAN_LOCATION_INLINE_STORAGE", m.b)
            ELSE IF ~fetchSpan(d, entry.fileId1, entry.byteOffset1) THEN
                IF findBlocksLocIdx(d.spans[dk], entry.blocks1) # 0 THEN Ok(m.b)
                ELSE Fail("SPAN_NOT_FOUND", m.b)
            ELSE IF d.spans[sk].inline THEN Fail("SWAP_SPANS_INLINE_STORAGE", m.b)
            ELSE IF d.spans[sk].spanSize # d.spans[dk].spanSize
                 THEN Fail("ADD_SPAN_LOCATION_MISMATCHING_SIZE", m.b)
            ELSE IF d.spans[sk].crc # d.spans[dk].crc THEN Fail("ADD_SPAN_LOCATION_MISMATCHING_CRC", m.b)
            ELSE IF fetchSpanState(d, time, entry.fileId1, entry.byteOffset1 + SpanBodySize(d.spans[sk])) = "CRASH"
                 THEN Fail("CRASH", m.b)
            ELSE IF fetchSpanState(d, time, entry.fileId1, entry.byteOffset1 + SpanBodySize(d.spans[sk])) # "CLEAN"
                 THEN Fail("ADD_SPAN_LOCATION_NOT_CLEAN", m.b)
            ELSE IF Len(d.spans[sk].locations) # 1 THEN Fail("TRANSIENT_LOCATION_COUNT", m.b)
            ELSE Ok(addBlocksToFile(
                        addBlocksToFile(
                            [m.b EXCEPT
                                !.transient = Put(@, entry.fileId1,
                                    [m.tf EXCEPT !.fileSize = @ - d.spans[sk].spanSize]),
                                !.spans = Delete(
                                    Put(@, dk, [d.spans[dk] EXCEPT
                                                  !.locations = Append(@, d.spans[sk].locations[1])]),
                                    sk)],
                            d.spans[sk].locations[1].blocks, entry.fileId2, 1),
                        d.spans[sk].locations[1].blocks, entry.fileId1, -1))
    IN  AfterInitiate(initiateTransientFileModification(interval, d, b, time, FALSE, entry.fileId1))

applyAddSpanLocation(interval, d, b, time, entry) ==
    LET destinationFile == getFile(d, entry.fileId2)
        dk == SpanKey(entry.fileId2, entry.byteOffset2)
        sk == SpanKey(entry.fileId1, entry.byteOffset1)
    IN
    LET AfterInitiate(m) ==
            IF destinationFile.err # "NO_ERROR" THEN Fail(destinationFile.err, b)
            ELSE IF m.err # "NO_ERROR" THEN Fail(m.err, b)
            ELSE IF m.tf.lastSpanState # "CLEAN" THEN Fail("LAST_SPAN_STATE_NOT_CLEAN", m.b)
            ELSE IF ~fetchSpan(d, entry.fileId2, entry.byteOffset2) THEN Fail("SPAN_NOT_FOUND", m.b)
            ELSE IF d.spans[dk].inline THEN Fail("ADD_SPAN_LOCATION_INLINE_STORAGE", m.b)
            ELSE IF ~fetchSpan(d, entry.fileId1, entry.byteOffset1) THEN
                IF findBlocksLocIdx(d.spans[dk], entry.blocks1) # 0 THEN Ok(m.b)
                ELSE Fail("SPAN_NOT_FOUND", m.b)
            ELSE IF d.spans[sk].inline THEN Fail("SWAP_SPANS_INLINE_STORAGE", m.b)
            ELSE IF d.spans[sk].spanSize # d.spans[dk].spanSize
                 THEN Fail("ADD_SPAN_LOCATION_MISMATCHING_SIZE", m.b)
            ELSE IF d.spans[sk].crc # d.spans[dk].crc THEN Fail("ADD_SPAN_LOCATION_MISMATCHING_CRC", m.b)
            ELSE IF fetchSpanState(d, time, entry.fileId1, entry.byteOffset1 + SpanBodySize(d.spans[sk])) = "CRASH"
                 THEN Fail("CRASH", m.b)
            ELSE IF fetchSpanState(d, time, entry.fileId1, entry.byteOffset1 + SpanBodySize(d.spans[sk])) # "CLEAN"
                 THEN Fail("ADD_SPAN_LOCATION_NOT_CLEAN", m.b)
            ELSE IF Len(d.spans[sk].locations) # 1 THEN Fail("TRANSIENT_LOCATION_COUNT", m.b)
            ELSE IF \E i \in 1..Len(d.spans[dk].locations) :
                        d.spans[dk].locations[i].location = d.spans[sk].locations[1].location
                 THEN Fail("ADD_SPAN_LOCATION_EXISTS", m.b)
            ELSE Ok(addBlocksToFile(
                        addBlocksToFile(
                            [m.b EXCEPT
                                !.transient = Put(@, entry.fileId1,
                                    [m.tf EXCEPT !.fileSize = @ - d.spans[sk].spanSize]),
                                !.spans = Delete(
                                    Put(@, dk, [d.spans[dk] EXCEPT
                                                  !.locations = Append(@, d.spans[sk].locations[1])]),
                                    sk)],
                            d.spans[sk].locations[1].blocks, entry.fileId2, 1),
                        d.spans[sk].locations[1].blocks, entry.fileId1, -1))
    IN  AfterInitiate(initiateTransientFileModification(interval, d, b, time, FALSE, entry.fileId1))

\* the entries one request looks at
MaxEntries == 1000

\* variant: every entry looked at is deleted
removeZeroBlockServiceFiles_AnyCount(maxEntries, d, b, entry) ==
    LET Before(x, k) == x[1] < k[1] \/ (x[1] = k[1] /\ x[2] < k[2])
        begin == <<entry.startBlockService, entry.startFile>>
        later == {k \in DOMAIN d.bsToFiles : ~Before(k, begin)}
        seen == {k \in later : Cardinality({x \in later : Before(x, k)}) < maxEntries}
        rest == later \ seen
        next == IF rest = {} THEN <<0, NULL_INODE_ID>>
                ELSE CHOOSE k \in rest : \A x \in rest : ~Before(x, k)
    IN  [err |-> "NO_ERROR",
         b |-> [b EXCEPT !.bsToFiles = [k \in (DOMAIN @) \ seen |-> @[k]]],
         removed |-> Cardinality(seen),
         nextBlockService |-> next[1], nextFile |-> next[2]]

\* the loop of _applyRemoveZeroBlockServiceFiles with `maxEntries` entries
\* looked at: the entries from the key sought on, the zero ones among them
\* deleted, and the key the iterator is left at
removeZeroBlockServiceFiles(maxEntries, d, b, entry) ==
    LET Before(x, k) == x[1] < k[1] \/ (x[1] = k[1] /\ x[2] < k[2])
        begin == <<entry.startBlockService, entry.startFile>>
        later == {k \in DOMAIN d.bsToFiles : ~Before(k, begin)}
        seen == {k \in later : Cardinality({x \in later : Before(x, k)}) < maxEntries}
        zero == {k \in seen : d.bsToFiles[k] = 0}
        rest == later \ seen
        next == IF rest = {} THEN <<0, NULL_INODE_ID>>
                ELSE CHOOSE k \in rest : \A x \in rest : ~Before(x, k)
    IN  [err |-> "NO_ERROR",
         b |-> [b EXCEPT !.bsToFiles = [k \in (DOMAIN @) \ zero |-> @[k]]],
         removed |-> Cardinality(zero),
         nextBlockService |-> next[1], nextFile |-> next[2]]

applyRemoveZeroBlockServiceFiles(d, b, time, entry) ==
    removeZeroBlockServiceFiles(MaxEntries, d, b, entry)

\* ------------------------------------------------------------ applyLogEntry
\* the instance's configuration (the constructor's deadlineInterval)
TransientDeadlineInterval == 1
Options == [transientDeadlineInterval |-> TransientDeadlineInterval]

\* _applySetTime.  A requested time is a 64-bit word: `top` is its bit 63,
\* which says that the time is to be set, `low` the other 63 bits, the time.
applySetTime(d, b, time, entry) ==
    LET f == getFile(d, entry.id) IN
    IF f.err # "NO_ERROR" THEN Fail(f.err, b)
    ELSE Ok([b EXCEPT !.files =
                Put(@, entry.id,
                    [f.file EXCEPT !.atime = IF entry.atime.top THEN entry.atime.low ELSE @,
                                   !.mtime = IF entry.mtime.top THEN entry.mtime.low ELSE @])])

\* the switch of applyLogEntry; an entry of a kind it does not know makes it
\* throw
applyKind(opts, d, b, entry) ==
    CASE entry.kind = "CONSTRUCT_FILE" -> applyConstructFile(d, b, entry.time, entry)
      [] entry.kind = "LINK_FILE" -> applyLinkFile(d, b, entry.time, entry)
      [] entry.kind = "SAME_DIRECTORY_RENAME" -> applySameDirectoryRename(d, b, entry.time, entry)
      [] entry.kind = "SAME_DIRECTORY_RENAME_SNAPSHOT" ->
            applySameDirectoryRenameSnapshot(d, b, entry.time, entry)
      [] entry.kind = "SOFT_UNLINK_FILE" -> applySoftUnlinkFile(d, b, entry.time, entry)
      [] entry.kind = "CREATE_DIRECTORY_INODE" -> applyCreateDirectoryInode(d, b, entry.time, entry)
      [] entry.kind = "CREATE_LOCKED_CURRENT_EDGE" ->
            applyCreateLockedCurrentEdge(d, b, entry.time, entry)
      [] entry.kind = "UNLOCK_CURRENT_EDGE" -> applyUnlockCurrentEdge(d, b, entry.time, entry)
      [] entry.kind = "LOCK_CURRENT_EDGE" -> applyLockCurrentEdge(d, b, entry.time, entry)
      [] entry.kind = "REMOVE_DIRECTORY_OWNER" -> applyRemoveDirectoryOwner(d, b, entry.time, entry)
      [] entry.kind = "REMOVE_INODE" -> applyRemoveInode(d, b, entry.time, entry)
      [] entry.kind = "SET_DIRECTORY_OWNER" -> applySetDirectoryOwner(d, b, entry.time, entry)
      [] entry.kind = "SET_DIRECTORY_INFO" -> applySetDirectoryInfo(d, b, entry.time, entry)
      [] entry.kind = "REMOVE_NON_OWNED_EDGE" -> applyRemoveNonOwnedEdge(d, b, entry.time, entry)
      [] entry.kind = "SAME_SHARD_HARD_FILE_UNLINK" ->
            applySameShardHardFileUnlink(d, b, entry.time, entry)
      [] entry.kind = "ADD_INLINE_SPAN" ->
            applyAddInlineSpan(opts.transientDeadlineInterval, d, b, entry.time, entry)
      [] entry.kind = "MAKE_FILE_TRANSIENT_DE_PR_EC_AT_ED" ->
            applyMakeFileTransient(d, b, entry.time,
                [id |-> entry.id, note |-> entry.note,
                 deadlineTime |-> entry.time + opts.transientDeadlineInterval])
      [] entry.kind = "MAKE_FILE_TRANSIENT" -> applyMakeFileTransient(d, b, entry.time, entry)
      [] entry.kind = "SCRAP_TRANSIENT_FILE" -> applyScrapTransientFile(d, b, entry.time, entry)
      [] entry.kind = "REMOVE_OWNED_SNAPSHOT_FILE_EDGE" ->
            applyRemoveOwnedSnapshotFileEdge(d, b, entry.time, entry)
      [] entry.kind = "REMOVE_SPAN_INITIATE" ->
            applyRemoveSpanInitiate(opts.transientDeadlineInterval, d, b, entry.time, entry)
      [] entry.kind = "ADD_SPAN_INITIATE" ->
            applyAddSpanInitiate(opts.transientDeadlineInterval, d, b, entry.time,
                                 [locationId |-> DEFAULT_LOCATION] @@ entry)
      [] entry.kind = "ADD_SPAN_AT_LOCATION_INITIATE" ->
            applyAddSpanInitiate(opts.transientDeadlineInterval, d, b, entry.time, entry)
      [] entry.kind = "ADD_SPAN_CERTIFY" ->
            applyAddSpanCertify(opts.transientDeadlineInterval, d, b, entry.time, entry)
      [] entry.kind = "ADD_SPAN_LOCATION" ->
            applyAddSpanLocation(opts.transientDeadlineInterval, d, b, entry.time, entry)
      [] entry.kind = "REMOVE_SPAN_CERTIFY" ->
            applyRemoveSpanCertify(opts.transientDeadlineInterval, d, b, entry.time, entry)
      [] entry.kind = "SWAP_BLOCKS" -> applySwapBlocks(d, b, entry.time, entry)
      [] entry.kind = "SWAP_SPANS" -> applySwapSpans(d, b, entry.time, entry)
      [] entry.kind = "MOVE_SPAN" ->
            applyMoveSpan(opts.transientDeadlineInterval, d, b, entry.time, entry)
      [] entry.kind = "SET_TIME" -> applySetTime(d, b, entry.time, entry)
      [] entry.kind = "REMOVE_ZERO_BLOCK_SERVICE_FILES" ->
            applyRemoveZeroBlockServiceFiles(d, b, entry.time, entry)
      [] OTHER -> Fail("EXCEPTION", b)

\* RollbackToSavePoint: the batch is cut back to the index advance alone
\* variant: the batch keeps what a failed entry wrote
rollbackToSavePoint_Kept(savePoint, b) == b

rollbackToSavePoint(savePoint, b) == savePoint

\* applyLogEntry past the assertion: advance the index in the batch, set the
\* save point, run the entry, roll back to the save point on an error, and
\* write the batch.  The result is the database after `_db->Write`.
\* The call holds _applyLogEntryLock from its start to its end (AssertiveLock
\* is not in the sources; by the specification the apply path is
\* single-writer, serialized behind one exclusive mutex), so that it is one
\* step with respect to every other applyLogEntry.
applyLogEntry(opts, d, index, entry) ==
    LET savePoint == advanceLastAppliedLogEntry(d, index)
    IN
    LET AfterApply(r) ==
            [db |-> IF r.err = "NO_ERROR" THEN r.b
                    \* the exception leaves the call before _db->Write
                    ELSE IF r.err = "EXCEPTION" THEN d
                    ELSE rollbackToSavePoint(savePoint, r.b),
                err |-> r.err,
                blocks |-> IF r.err = "NO_ERROR" /\ "blocks" \in DOMAIN r THEN r.blocks ELSE <<>>]
    IN  AfterApply(applyKind(opts, d, savePoint, entry))

\* ------------------------------------------------------------------ inputs
D1 == InodeId(DIRECTORY, SHID, 1)
DirIds == {ROOT_DIR_INODE_ID, D1}
FileIds == {InodeId(FILE, SHID, n) : n \in 1..MaxFiles}
TargetIds == FileIds \cup {D1}
Names == {"a", "b"}
Times == 1..MaxTime
\* requests carry one directory info, other than the root's default
Infos == {"i1"}
\* the owner named by directory requests
OwnerIds == {ROOT_DIR_INODE_ID}
Crc(body, size) == <<body, size>>
\* A creation time that names no edge behaves the same whatever its value:
\* requests carry the creation times of the edges the name has, or 0, which
\* names none.
CreationTimes(d, dirId, name) ==
    {0} \cup SnapshotTimes(d, dirId, name)
        \cup (IF CurKey(dirId, name) \in DOMAIN d.current
              THEN {d.current[CurKey(dirId, name)].creationTime} ELSE {})

\* ----------------------------------------------------------------- actions
EntryDir(entry) ==
    CASE entry.kind \in {"LINK_FILE", "SOFT_UNLINK_FILE", "SAME_SHARD_HARD_FILE_UNLINK",
                         "REMOVE_OWNED_SNAPSHOT_FILE_EDGE"} -> entry.ownerId
      [] entry.kind \in {"CREATE_DIRECTORY_INODE", "REMOVE_INODE", "MAKE_FILE_TRANSIENT",
                         "SCRAP_TRANSIENT_FILE"} -> entry.id
      [] entry.kind \in {"ADD_INLINE_SPAN"} -> entry.fileId
      [] entry.kind \in {"CONSTRUCT_FILE"} -> NULL_INODE_ID
      [] OTHER -> entry.dirId

EntryName(entry) ==
    CASE entry.kind \in {"SAME_DIRECTORY_RENAME", "SAME_DIRECTORY_RENAME_SNAPSHOT"} -> entry.oldName
      [] entry.kind \in {"LINK_FILE", "SOFT_UNLINK_FILE", "SAME_SHARD_HARD_FILE_UNLINK",
                         "REMOVE_OWNED_SNAPSHOT_FILE_EDGE", "CREATE_LOCKED_CURRENT_EDGE",
                         "UNLOCK_CURRENT_EDGE", "LOCK_CURRENT_EDGE", "REMOVE_NON_OWNED_EDGE"} -> entry.name
      [] OTHER -> ""

Applied(entry, err, index) ==
    [kind |-> entry.kind, time |-> entry.time, err |-> err, index |-> index,
     dirId |-> EntryDir(entry), name |-> EntryName(entry),
     wasMoved |-> entry.kind = "UNLOCK_CURRENT_EDGE" /\ entry.wasMoved]

\* One call of applyLogEntry(db.lastApplied + 1, entry).  A process that dies
\* inside the call writes nothing.
\* the process is alive, the caller is ready for the next entry
Ready == ~aborted /\ last = NoEntry /\ db.lastApplied < MaxLog

LogStep(entry) ==
    \E r \in {applyLogEntry(Options, db, db.lastApplied + 1, entry)} :
       IF r.err = "CRASH"
       THEN /\ aborted' = TRUE
            /\ last' = Applied(entry, r.err, db.lastApplied + 1)
            /\ UNCHANGED <<db, readVars, db2>>
       ELSE /\ db' = r.db
            /\ last' = Applied(entry, r.err, db.lastApplied + 1)
            /\ UNCHANGED <<aborted, readVars, db2>>

Entry(kind, time, body) == [kind |-> kind, time |-> time] @@ body

\* applyLogEntry with an index other than last applied + 1: the ALWAYS_ASSERT
\* of _advanceLastAppliedLogEntry trips before anything is written
ApplyBadIndex ==
    \E index \in {db.lastApplied, db.lastApplied + 2} :
        /\ ~aborted
        /\ last = NoEntry
        /\ ~advanceAssertion(db, index)
        /\ aborted' = TRUE
        /\ last' = [NoEntry EXCEPT !.kind = "SET_DIRECTORY_INFO", !.err = "ASSERTION", !.index = index]
        /\ UNCHANGED <<db, readVars, db2>>

\* resp.clear(): the caller's response container is emptied before the next
\* entry is applied
RespClear ==
    /\ ~aborted
    /\ last # NoEntry
    /\ last' = NoEntry
    /\ UNCHANGED <<db, aborted, readVars, db2>>

\* _prepareConstructFile stamps the deadline with the leader's interval
ApplyConstructFile ==
    /\ Ready
    /\ \E t \in Times :
        /\ db.nextFileId < InodeId(FILE, SHID, MaxFiles)
        /\ LogStep(Entry("CONSTRUCT_FILE", t,
                [type |-> FILE, note |-> "n", deadlineTime |-> t + TransientDeadlineInterval]))

ApplyLinkFile ==
    /\ Ready
    /\ \E fileId \in FileIds, ownerId \in DirIds, name \in Names, t \in Times :
        LogStep(Entry("LINK_FILE", t, [fileId |-> fileId, ownerId |-> ownerId, name |-> name]))

ApplySameDirectoryRename ==
    /\ Ready
    /\ \E dirId \in DirIds, targetId \in TargetIds, oldName \in Names, newName \in Names, t \in Times :
      \E oldCreationTime \in CreationTimes(db, dirId, oldName) :
        /\ oldName # newName
        /\ LogStep(Entry("SAME_DIRECTORY_RENAME", t,
                [dirId |-> dirId, targetId |-> targetId, oldName |-> oldName, newName |-> newName,
                 oldCreationTime |-> oldCreationTime]))

ApplySameDirectoryRenameSnapshot ==
    /\ Ready
    /\ \E dirId \in DirIds, targetId \in TargetIds, oldName \in Names, newName \in Names, t \in Times :
      \E oldCreationTime \in CreationTimes(db, dirId, oldName) :
        LogStep(Entry("SAME_DIRECTORY_RENAME_SNAPSHOT", t,
                [dirId |-> dirId, targetId |-> targetId, oldName |-> oldName, newName |-> newName,
                 oldCreationTime |-> oldCreationTime]))

ApplySoftUnlinkFile ==
    /\ Ready
    /\ \E ownerId \in DirIds, fileId \in FileIds, name \in Names, t \in Times :
      \E creationTime \in CreationTimes(db, ownerId, name) :
        LogStep(Entry("SOFT_UNLINK_FILE", t,
                [ownerId |-> ownerId, fileId |-> fileId, name |-> name, creationTime |-> creationTime]))

ApplyCreateDirectoryInode ==
    /\ Ready
    /\ \E id \in DirIds, ownerId \in OwnerIds, info \in Infos, t \in Times :
        LogStep(Entry("CREATE_DIRECTORY_INODE", t, [id |-> id, ownerId |-> ownerId, info |-> info]))

ApplyCreateLockedCurrentEdge ==
    /\ Ready
    /\ \E dirId \in DirIds, name \in Names, targetId \in TargetIds, t \in Times :
      \E oldCreationTime \in CreationTimes(db, dirId, name) :
        LogStep(Entry("CREATE_LOCKED_CURRENT_EDGE", t,
                [dirId |-> dirId, name |-> name, targetId |-> targetId,
                 oldCreationTime |-> oldCreationTime]))

ApplyUnlockCurrentEdge ==
    /\ Ready
    /\ \E dirId \in DirIds, name \in Names, targetId \in TargetIds, wasMoved \in BOOLEAN, t \in Times :
      \E creationTime \in CreationTimes(db, dirId, name) :
        LogStep(Entry("UNLOCK_CURRENT_EDGE", t,
                [dirId |-> dirId, name |-> name, targetId |-> targetId,
                 creationTime |-> creationTime, wasMoved |-> wasMoved]))

ApplyLockCurrentEdge ==
    /\ Ready
    /\ \E dirId \in DirIds, name \in Names, targetId \in TargetIds, t \in Times :
      \E creationTime \in CreationTimes(db, dirId, name) :
        LogStep(Entry("LOCK_CURRENT_EDGE", t,
                [dirId |-> dirId, name |-> name, targetId |-> targetId,
                 creationTime |-> creationTime]))

\* _prepareRemoveDirectoryOwner asserts that the directory is not the root
ApplyRemoveDirectoryOwner ==
    /\ Ready
    /\ \E dirId \in DirIds \ {ROOT_DIR_INODE_ID}, info \in Infos, t \in Times :
        LogStep(Entry("REMOVE_DIRECTORY_OWNER", t, [dirId |-> dirId, info |-> info]))

\* _prepareRemoveInode refuses the root directory
ApplyRemoveInode ==
    /\ Ready
    /\ \E id \in (DirIds \cup FileIds) \ {ROOT_DIR_INODE_ID}, t \in Times :
        LogStep(Entry("REMOVE_INODE", t, [id |-> id]))

ApplySetDirectoryOwner ==
    /\ Ready
    /\ \E dirId \in DirIds, ownerId \in OwnerIds, t \in Times :
        LogStep(Entry("SET_DIRECTORY_OWNER", t, [dirId |-> dirId, ownerId |-> ownerId]))

ApplySetDirectoryInfo ==
    /\ Ready
    /\ \E dirId \in DirIds, info \in Infos, t \in Times :
        LogStep(Entry("SET_DIRECTORY_INFO", t, [dirId |-> dirId, info |-> info]))

ApplyRemoveNonOwnedEdge ==
    /\ Ready
    /\ \E dirId \in DirIds, name \in Names, t \in Times :
      \E creationTime \in CreationTimes(db, dirId, name) :
        LogStep(Entry("REMOVE_NON_OWNED_EDGE", t,
                [dirId |-> dirId, name |-> name, creationTime |-> creationTime]))

\* _prepareSameShardHardFileUnlink sets the deadline to the log time
ApplySameShardHardFileUnlink ==
    /\ Ready
    /\ \E ownerId \in DirIds, targetId \in FileIds, name \in Names, t \in Times :
      \E creationTime \in CreationTimes(db, ownerId, name) :
        \E ub \in IF initiateDirectoryModification(db, db, t, TRUE, ownerId).err = "NO_ERROR"
                  THEN {"defined"} ELSE {"crash", "hash_ok", "hash_bad"} :
            LogStep(Entry("SAME_SHARD_HARD_FILE_UNLINK", t,
                    [ownerId |-> ownerId, targetId |-> targetId, name |-> name,
                     creationTime |-> creationTime, deadlineTime |-> t, ub |-> ub]))

ApplyAddInlineSpan ==
    /\ Ready
    /\ \E fileId \in FileIds, size \in {0, 1}, t \in Times :
        LogStep(Entry("ADD_INLINE_SPAN", t,
                [fileId |-> fileId, byteOffset |-> 0, size |-> size,
                 body |-> IF size = 0 THEN "" ELSE "x",
                 crc |-> Crc(IF size = 0 THEN "" ELSE "x", size)]))

\* _prepareMakeFileTransient sets the deadline to the log time
ApplyMakeFileTransient ==
    /\ Ready
    /\ \E id \in FileIds, t \in Times :
        LogStep(Entry("MAKE_FILE_TRANSIENT", t, [id |-> id, note |-> "m", deadlineTime |-> t]))

\* _prepareScrapTransientFile sets the deadline to the log time
ApplyScrapTransientFile ==
    /\ Ready
    /\ \E id \in FileIds, t \in Times :
        LogStep(Entry("SCRAP_TRANSIENT_FILE", t, [id |-> id, deadlineTime |-> t]))

ApplyRemoveOwnedSnapshotFileEdge ==
    /\ Ready
    /\ \E ownerId \in DirIds, targetId \in FileIds, name \in Names, t \in Times :
      \E creationTime \in CreationTimes(db, ownerId, name) :
        LogStep(Entry("REMOVE_OWNED_SNAPSHOT_FILE_EDGE", t,
                [ownerId |-> ownerId, targetId |-> targetId, name |-> name,
                 creationTime |-> creationTime]))

Next ==
    \/ ApplyBadIndex
    \/ RespClear
    \/ ApplyConstructFile
    \/ ApplyLinkFile
    \/ ApplySameDirectoryRename
    \/ ApplySameDirectoryRenameSnapshot
    \/ ApplySoftUnlinkFile
    \/ ApplyCreateDirectoryInode
    \/ ApplyCreateLockedCurrentEdge
    \/ ApplyUnlockCurrentEdge
    \/ ApplyLockCurrentEdge
    \/ ApplyRemoveDirectoryOwner
    \/ ApplyRemoveInode
    \/ ApplySetDirectoryOwner
    \/ ApplySetDirectoryInfo
    \/ ApplyRemoveNonOwnedEdge
    \/ ApplySameShardHardFileUnlink
    \/ ApplyAddInlineSpan
    \/ ApplyMakeFileTransient
    \/ ApplyScrapTransientFile
    \/ ApplyRemoveOwnedSnapshotFileEdge

Spec == Init /\ [][Next]_vars

\* ---------------------------------------------------------------- reads
\* Reads run on the snapshot `options` names; `d` is the live database.
statDirectory(options, req) ==
    LET g == getDirectory(options, req.id, TRUE) IN
    IF g.err # "NO_ERROR" THEN [err |-> g.err]
    ELSE [err |-> "NO_ERROR", mtime |-> g.dir.mtime, owner |-> g.dir.ownerId, info |-> g.dir.info]

\* the second Get of _lookup: the current edge of the name
lookupEdge(options, req) ==
    LET ck == CurKey(req.dirId, req.name) IN
    IF ck \notin DOMAIN options.current THEN [err |-> "NAME_NOT_FOUND"]
    ELSE [err |-> "NO_ERROR", creationTime |-> options.current[ck].creationTime,
          targetId |-> options.current[ck].targetId]

lookup(options, req) ==
    LET g == getDirectory(options, req.dirId, FALSE) IN
    IF g.err # "NO_ERROR" THEN [err |-> g.err]
    ELSE lookupEdge(options, req)

\* the kinds the switch of read has an arm for
ReadOnlyKinds ==
    {"STAT_FILE", "READ_DIR", "STAT_DIRECTORY", "STAT_TRANSIENT_FILE", "LOOKUP",
     "VISIT_TRANSIENT_FILES", "FULL_READ_DIR", "VISIT_DIRECTORIES", "LOCAL_FILE_SPANS",
     "FILE_SPANS", "BLOCK_SERVICE_FILES", "VISIT_FILES"}

\* the switch of read: the arms of StatDirectory and Lookup, and the default
\* arm, which throws
readKind(options, req) ==
    CASE req.kind = "STAT_DIRECTORY" -> statDirectory(options, req)
      [] req.kind = "LOOKUP" -> lookup(options, req)
      [] req.kind \notin ReadOnlyKinds -> [err |-> "EXCEPTION"]

\* variant: the index is read from the live database
read_IndexOfLiveDb(options, d, req) ==
    [resp |-> readKind(options, req), index |-> lastAppliedLogEntry(d)]

\* read past the load of the snapshot: the handler and the index it returns
\* both read through options.snapshot
read(options, d, req) ==
    [resp |-> readKind(options, req), index |-> lastAppliedLogEntry(options)]

\* _db->GetSnapshot()
GetSnapshot(d) == d

\* the null pointer close() leaves in _currentReadSnapshot
NullSnapshot == [null |-> TRUE]
IsNull(snapshot) == "null" \in DOMAIN snapshot

\* what a Get or an iterator reads with options.snapshot = snapshot.get():
\* the snapshot, or with a null one the database as it is at that moment
readView(snapshot, d) == IF IsNull(snapshot) THEN d ELSE snapshot

\* variant: the snapshot published stays the old one
atomicExchange_Lost(old, new) == old

\* std::atomic_exchange(&_currentReadSnapshot, snapshot)
atomicExchange(old, new) == new

\* the last one is a request of a kind that read has no arm for
ReadRequests ==
    {[kind |-> "STAT_DIRECTORY", id |-> ROOT_DIR_INODE_ID],
     [kind |-> "LOOKUP", dirId |-> ROOT_DIR_INODE_ID, name |-> "a"],
     [kind |-> "SET_DIRECTORY_INFO", dirId |-> ROOT_DIR_INODE_ID]}

\* _getCurrentReadSnapshot: std::atomic_load of the pointer.  close() writes
\* the pointer with a plain reset(), so a load that runs while close() is in
\* reset() races with it: the load gives the snapshot with a reference of its
\* own, or the null pointer, or the snapshot whose last reference reset()
\* drops (ReleaseSnapshot is then called while the loader still holds the
\* snapshot), or the process dies.  A pointer that a close() racing with a
\* flush() has left naming a released snapshot gives that released snapshot.
\* The reset() of a null pointer writes null over null and drops nothing:
\* the load gives the null pointer.
getCurrentReadSnapshot(snapshot, closing, released) ==
    {[snapshot |-> snapshot, released |-> released, crash |-> FALSE]}
    \cup (IF closing /\ ~IsNull(snapshot)
          THEN {[snapshot |-> NullSnapshot, released |-> FALSE, crash |-> FALSE],
                [snapshot |-> snapshot, released |-> TRUE, crash |-> FALSE],
                [snapshot |-> snapshot, released |-> FALSE, crash |-> TRUE]}
          ELSE {})

\* what a Get or an iterator reads through the snapshot a load has given: a
\* released snapshot is freed memory, which reads as the snapshot it was or
\* as anything else, and then the Get sees the database as it is
snapshotViews(loaded, d) ==
    IF loaded.released THEN {loaded.snapshot, d} ELSE {readView(loaded.snapshot, d)}

\* flush() on thread t: FlushWAL, then _updateCurrentReadSnapshot takes a
\* snapshot of the database ...
FlushGetSnapshotOn(t) ==
    /\ ~aborted
    /\ flusher.threads[t].pc = "idle"
    /\ flusher' = [flusher EXCEPT !.threads[t] =
                        [pc |-> "exchange", snapshot |-> GetSnapshot(db),
                         calledAt |-> db.lastApplied]]
    /\ UNCHANGED <<db, aborted, last, currentReadSnapshot, reader, history, db2, buf, pending>>

\* ... and publishes it, over what another thread has published meanwhile.
\* std::atomic_exchange swaps the pointer and its control block under a lock
\* that the reset() of close() does not take.  An exchange that runs while
\* close() is in reset() races with it: both write the two words of the
\* pointer, and what they leave is settled when reset() is over (CloseEnd);
\* when both release the snapshot that was published the process dies, and
\* so it may when the pointer replaced names a released snapshot.
FlushExchangeOn(t) ==
    /\ ~aborted
    /\ flusher.threads[t].pc = "exchange"
    /\ \E crash \in IF (flusher.closing /\ ~IsNull(currentReadSnapshot)) \/ flusher.released
                    THEN BOOLEAN ELSE {FALSE} :
        IF crash
        THEN /\ aborted' = TRUE
             /\ UNCHANGED <<db, last, currentReadSnapshot, flusher, reader, history, db2, buf, pending>>
        ELSE /\ currentReadSnapshot' =
                    atomicExchange(currentReadSnapshot, flusher.threads[t].snapshot)
             /\ flusher' = [threads |-> [flusher.threads EXCEPT ![t] = IdleFlusher],
                            published |-> flusher.threads[t].calledAt,
                            closing |-> flusher.closing,
                            raced |-> flusher.closing,
                            released |-> FALSE]
             /\ UNCHANGED <<db, aborted, last, reader, history, db2, buf, pending>>

\* flush() is public and takes no lock: any thread may be in it
FlushGetSnapshot == \E t \in FlushThreads : FlushGetSnapshotOn(t)

FlushExchange == \E t \in FlushThreads : FlushExchangeOn(t)

\* close() enters _currentReadSnapshot.reset(), a plain write of the pointer
\* with no lock, which the loads of read() and prepareLogEntry and the
\* exchange of flush() race with until it is over ...  close() may be
\* called again, on a pointer that is null already.
CloseBegin ==
    /\ ~aborted
    /\ ~flusher.closing
    /\ flusher' = [flusher EXCEPT !.closing = TRUE]
    /\ UNCHANGED <<db, aborted, last, currentReadSnapshot, reader, history, db2, buf, pending>>

\* what reset() and an exchange that ran inside it leave in the pointer:
\* reset() swaps the pointer with an empty one, word by word, and drops what
\* it took.  It leaves the pointer null; or, when the exchange wrote after
\* it, the snapshot of the exchange; or, when the exchange wrote between its
\* two writes, the address of that snapshot with no control block, while
\* reset() holds the control block and drops it, which calls ReleaseSnapshot
\* on the snapshot the pointer still names.
resetOutcomes(raced) ==
    IF raced THEN {"null", "exchanged", "released"} ELSE {"null"}

\* ... and leaves it: null when no exchange has run meanwhile
CloseEnd ==
    /\ ~aborted
    /\ flusher.closing
    /\ \E outcome \in resetOutcomes(flusher.raced) :
        /\ currentReadSnapshot' =
                IF outcome = "null" THEN NullSnapshot ELSE currentReadSnapshot
        /\ flusher' = [flusher EXCEPT !.closing = FALSE, !.raced = FALSE,
                                      !.released = (outcome = "released")]
    /\ UNCHANGED <<db, aborted, last, reader, history, db2, buf, pending>>

\* read(): _getCurrentReadSnapshot.  appliedAtStart and flushedAtStart
\* remember what had been applied when the read started, and what had been
\* applied when the snapshot published last was taken.
ReadBegin ==
    /\ ~aborted
    /\ reader.pc = "idle"
    /\ \E req \in ReadRequests,
          loaded \in getCurrentReadSnapshot(currentReadSnapshot, flusher.closing, flusher.released) :
        IF loaded.crash
        THEN /\ aborted' = TRUE
             /\ UNCHANGED <<db, last, currentReadSnapshot, flusher, reader, history, db2, buf, pending>>
        ELSE /\ reader' = [pc |-> "loaded", snapshot |-> loaded.snapshot,
                           released |-> loaded.released, req |-> req,
                           resp |-> NoResponse, index |-> 0,
                           appliedAtStart |-> db.lastApplied,
                           flushedAtStart |-> flusher.published]
             /\ UNCHANGED <<db, aborted, last, currentReadSnapshot, flusher, history, db2, buf, pending>>

\* read() on a snapshot: the handler, and the index returned; nothing that
\* happens meanwhile changes what the snapshot holds.  A request of a kind
\* with no arm makes read throw: the caller gets no response and no index.
ReadEnd ==
    /\ ~aborted
    /\ reader.pc = "loaded"
    /\ ~IsNull(reader.snapshot)
    /\ ~reader.released
    /\ \E r \in {read(reader.snapshot, db, reader.req)} :
       reader' = IF r.resp.err = "EXCEPTION" THEN IdleReader
                 ELSE [reader EXCEPT !.pc = "done", !.resp = r.resp, !.index = r.index]
    /\ UNCHANGED <<db, aborted, last, currentReadSnapshot, flusher, history, db2, buf, pending>>

\* read() with a null snapshot or a released one: every Get reads what it
\* finds when it runs.  The first Get of the handler is that of the
\* directory ...
ReadLiveDirectory ==
    /\ ~aborted
    /\ reader.pc = "loaded"
    /\ IsNull(reader.snapshot) \/ reader.released
    /\ \E view \in snapshotViews(reader, db) :
       reader' =
            IF reader.req.kind \notin ReadOnlyKinds
            THEN IF reader.released THEN [reader EXCEPT !.pc = "thrown"] ELSE IdleReader
            ELSE IF reader.req.kind = "STAT_DIRECTORY"
            THEN [reader EXCEPT !.pc = "handled", !.resp = statDirectory(view, reader.req)]
            ELSE IF getDirectory(view, reader.req.dirId, FALSE).err # "NO_ERROR"
            THEN [reader EXCEPT !.pc = "handled",
                                !.resp = [err |-> getDirectory(view, reader.req.dirId, FALSE).err]]
            ELSE [reader EXCEPT !.pc = "edge"]
    /\ UNCHANGED <<db, aborted, last, currentReadSnapshot, flusher, history, db2, buf, pending>>

\* ... the second Get of _lookup is that of the edge ...
ReadLiveEdge ==
    /\ ~aborted
    /\ reader.pc = "edge"
    /\ \E view \in snapshotViews(reader, db) :
       reader' = [reader EXCEPT !.pc = "handled", !.resp = lookupEdge(view, reader.req)]
    /\ UNCHANGED <<db, aborted, last, currentReadSnapshot, flusher, history, db2, buf, pending>>

\* ... and _lastAppliedLogEntry is one more Get
ReadLiveIndex ==
    /\ ~aborted
    /\ reader.pc = "handled"
    /\ \E view \in snapshotViews(reader, db) :
       reader' = [reader EXCEPT !.pc = "done", !.index = lastAppliedLogEntry(view)]
    /\ UNCHANGED <<db, aborted, last, currentReadSnapshot, flusher, history, db2, buf, pending>>

\* a Get through a released snapshot reads freed memory, and when read()
\* is left (by return or by the throw) the reader's pointer calls
\* ReleaseSnapshot on it once more: either can kill the process
ReadReleasedAborts ==
    /\ ~aborted
    /\ reader.released
    /\ reader.pc \in {"loaded", "edge", "handled", "thrown"}
    /\ aborted' = TRUE
    /\ UNCHANGED <<db, last, currentReadSnapshot, flusher, reader, history, db2, buf, pending>>

\* the throw of read() leaves it, with a released snapshot too
ReadThrown ==
    /\ ~aborted
    /\ reader.pc = "thrown"
    /\ reader' = IdleReader
    /\ UNCHANGED <<db, aborted, last, currentReadSnapshot, flusher, history, db2, buf, pending>>

\* the caller takes the result
ReadReturn ==
    /\ ~aborted
    /\ reader.pc = "done"
    /\ reader' = IdleReader
    /\ UNCHANGED <<db, aborted, last, currentReadSnapshot, flusher, history, db2, buf, pending>>

\* applyLogEntry on the writer thread, while reads and flushes run
WriterStep(entry) ==
    \E r \in {applyLogEntry(Options, db, db.lastApplied + 1, entry)} :
        IF r.err = "CRASH"
        THEN /\ aborted' = TRUE
             /\ UNCHANGED <<db, last, currentReadSnapshot, flusher, reader, history, db2, buf, pending>>
        ELSE /\ db' = r.db
             /\ history' = Append(history, r.db)
             /\ UNCHANGED <<aborted, last, currentReadSnapshot, flusher, reader, db2, buf, pending>>

WriterReady == ~aborted /\ db.lastApplied < MaxLog

\* the entries the writer applies while reads run, each at a time later
\* than every stored time; an edge that is created again makes an entry
\* that fails
MaxReadLog == 3
WriterTimes == {db.lastApplied + 1}

WriterSetDirectoryInfo ==
    /\ ~aborted
    /\ db.lastApplied < MaxReadLog
    /\ \E info \in Infos, t \in WriterTimes :
        WriterStep(Entry("SET_DIRECTORY_INFO", t, [dirId |-> ROOT_DIR_INODE_ID, info |-> info]))

WriterCreateLockedCurrentEdge ==
    /\ ~aborted
    /\ db.lastApplied < MaxReadLog
    /\ \E t \in WriterTimes :
        WriterStep(Entry("CREATE_LOCKED_CURRENT_EDGE", t,
                [dirId |-> ROOT_DIR_INODE_ID, name |-> "a", targetId |-> D1, oldCreationTime |-> 0]))

NextRead ==
    \/ WriterSetDirectoryInfo
    \/ WriterCreateLockedCurrentEdge
    \/ FlushGetSnapshot
    \/ FlushExchange
    \/ CloseBegin
    \/ CloseEnd
    \/ ReadBegin
    \/ ReadEnd
    \/ ReadLiveDirectory
    \/ ReadLiveEdge
    \/ ReadLiveIndex
    \/ ReadReleasedAborts
    \/ ReadThrown
    \/ ReadReturn

SpecRead == Init /\ [][NextRead]_vars

\* --------------------------------------------------------- second replica
\* a replica configured with another transient deadline interval
Options2 == [transientDeadlineInterval |-> TransientDeadlineInterval + 1]

\* the same entry at the same index on both replicas
ReplicaStep(entry) ==
    \E r \in {applyLogEntry(Options, db, db.lastApplied + 1, entry)},
       r2 \in {applyLogEntry(Options2, db2, db2.lastApplied + 1, entry)} :
       IF r.err = "CRASH" \/ r2.err = "CRASH"
       THEN /\ aborted' = TRUE
            /\ UNCHANGED <<db, db2, last, readVars>>
       ELSE /\ db' = r.db
            /\ db2' = r2.db
            /\ UNCHANGED <<aborted, last, readVars>>

ReplicaConstructFile ==
    /\ WriterReady
    /\ db.nextFileId < InodeId(FILE, SHID, MaxFiles)
    /\ \E t \in Times :
        ReplicaStep(Entry("CONSTRUCT_FILE", t,
                [type |-> FILE, note |-> "n", deadlineTime |-> t + TransientDeadlineInterval]))

ReplicaAddInlineSpan ==
    /\ WriterReady
    /\ \E fileId \in FileIds, size \in {0, 1}, t \in Times :
        ReplicaStep(Entry("ADD_INLINE_SPAN", t,
                [fileId |-> fileId, byteOffset |-> 0, size |-> size,
                 body |-> IF size = 0 THEN "" ELSE "x",
                 crc |-> Crc(IF size = 0 THEN "" ELSE "x", size)]))

ReplicaLinkFile ==
    /\ WriterReady
    /\ \E fileId \in FileIds, ownerId \in DirIds, name \in Names, t \in Times :
        ReplicaStep(Entry("LINK_FILE", t, [fileId |-> fileId, ownerId |-> ownerId, name |-> name]))

ReplicaSetDirectoryInfo ==
    /\ WriterReady
    /\ \E dirId \in DirIds, info \in Infos, t \in Times :
        ReplicaStep(Entry("SET_DIRECTORY_INFO", t, [dirId |-> dirId, info |-> info]))

NextReplicas ==
    \/ ReplicaConstructFile
    \/ ReplicaAddInlineSpan
    \/ ReplicaLinkFile
    \/ ReplicaSetDirectoryInfo

SpecReplicas == Init /\ [][NextReplicas]_vars

\* ------------------------------------------------- the life of a directory
\* One directory, one name, and a log long enough to create the directory,
\* fill it, empty it, orphan it and remove it.
MaxDirLog == 5
DirTimes == 1..MaxDirLog
F1 == InodeId(FILE, SHID, 1)

DirReady == ~aborted /\ last = NoEntry /\ db.lastApplied < MaxDirLog

DirCreateDirectoryInode ==
    /\ DirReady
    /\ \E ownerId \in OwnerIds, info \in Infos, t \in DirTimes :
        LogStep(Entry("CREATE_DIRECTORY_INODE", t, [id |-> D1, ownerId |-> ownerId, info |-> info]))

DirCreateLockedCurrentEdge ==
    /\ DirReady
    /\ \E t \in DirTimes, oldCreationTime \in CreationTimes(db, D1, "a") :
        LogStep(Entry("CREATE_LOCKED_CURRENT_EDGE", t,
                [dirId |-> D1, name |-> "a", targetId |-> F1, oldCreationTime |-> oldCreationTime]))

DirUnlockCurrentEdge ==
    /\ DirReady
    /\ \E wasMoved \in BOOLEAN, t \in DirTimes, creationTime \in CreationTimes(db, D1, "a") :
        LogStep(Entry("UNLOCK_CURRENT_EDGE", t,
                [dirId |-> D1, name |-> "a", targetId |-> F1,
                 creationTime |-> creationTime, wasMoved |-> wasMoved]))

DirRemoveDirectoryOwner ==
    /\ DirReady
    /\ \E info \in Infos, t \in DirTimes :
        LogStep(Entry("REMOVE_DIRECTORY_OWNER", t, [dirId |-> D1, info |-> info]))

DirSetDirectoryOwner ==
    /\ DirReady
    /\ \E ownerId \in OwnerIds, t \in DirTimes :
        LogStep(Entry("SET_DIRECTORY_OWNER", t, [dirId |-> D1, ownerId |-> ownerId]))

DirRemoveNonOwnedEdge ==
    /\ DirReady
    /\ \E t \in DirTimes, creationTime \in CreationTimes(db, D1, "a") :
        LogStep(Entry("REMOVE_NON_OWNED_EDGE", t,
                [dirId |-> D1, name |-> "a", creationTime |-> creationTime]))

DirRemoveInode ==
    /\ DirReady
    /\ \E t \in DirTimes :
        LogStep(Entry("REMOVE_INODE", t, [id |-> D1]))

NextDirs ==
    \/ RespClear
    \/ DirCreateDirectoryInode
    \/ DirCreateLockedCurrentEdge
    \/ DirUnlockCurrentEdge
    \/ DirRemoveDirectoryOwner
    \/ DirSetDirectoryOwner
    \/ DirRemoveNonOwnedEdge
    \/ DirRemoveInode

SpecDirs == Init /\ [][NextDirs]_vars

\* ---------------------------------------------------- the span lifecycle
\* An entry is stamped one tick after the latest mtime of the shard, and the
\* deadline interval outlasts the log.
MaxSpanLog == 6
MaxSpanFiles == 2
SpanDeadlineInterval == 12
SpanOptions == [transientDeadlineInterval |-> SpanDeadlineInterval]
SpanFileIds == {InodeId(FILE, SHID, n) : n \in 1..MaxSpanFiles}
SpanOffsets == {0, TERNFS_PAGE_SIZE}
BlockServices == {1, 2}
LocationIds == {0, 1}
FLASH_STORAGE == 2
HDD_STORAGE == 3

\* what `last` keeps of a span entry: the entry itself and the blocks of the
\* response
SpanApplied(entry, r, index) ==
    [kind |-> entry.kind, time |-> entry.time, err |-> r.err, index |-> index,
     entry |-> entry, blocks |-> r.blocks]

\* the latest mtime stored in the shard
Clock(d) ==
    SetMax({0} \cup {d.transient[id].mtime : id \in DOMAIN d.transient}
               \cup {d.files[id].mtime : id \in DOMAIN d.files})

SpanReady(maxLog) == ~aborted /\ last = NoEntry /\ db.lastApplied < maxLog

SpanStep(kind, body) ==
    \E r \in {applyLogEntry(SpanOptions, db, db.lastApplied + 1, Entry(kind, Clock(db) + 1, body))} :
       IF r.err = "CRASH"
       THEN /\ aborted' = TRUE
            /\ last' = SpanApplied(Entry(kind, Clock(db) + 1, body), r, db.lastApplied + 1)
            /\ UNCHANGED <<db, readVars, db2>>
       ELSE /\ db' = r.db
            /\ last' = SpanApplied(Entry(kind, Clock(db) + 1, body), r, db.lastApplied + 1)
            /\ UNCHANGED <<aborted, readVars, db2>>

\* the blocks of the span stored at (fileId, byteOffset), in order
BlocksAt(d, fileId, byteOffset) ==
    IF SpanKey(fileId, byteOffset) \notin DOMAIN d.spans THEN <<>>
    ELSE IF d.spans[SpanKey(fileId, byteOffset)].inline THEN <<>>
    ELSE AllBlocks(d.spans[SpanKey(fileId, byteOffset)].locations)

BlockIdsAt(d, fileId, byteOffset) ==
    [i \in DOMAIN BlocksAt(d, fileId, byteOffset) |-> BlocksAt(d, fileId, byteOffset)[i].blockId]

\* what a block service hands out for a block it holds: the proof that the
\* block was written ("W") or erased ("E")
BlockProof(blockServiceId, blockId, tag) ==
    [blockId |-> blockId,
     proof |-> cbcmac(SecretKey(blockServiceId), <<blockServiceId, tag, blockId>>)]

\* the proofs of the blocks of the span stored at (fileId, byteOffset)
ProofsAt(d, fileId, byteOffset, tag) ==
    [i \in DOMAIN BlocksAt(d, fileId, byteOffset) |->
        BlockProof(BlocksAt(d, fileId, byteOffset)[i].blockService,
                   BlocksAt(d, fileId, byteOffset)[i].blockId, tag)]

\* _prepareConstructFile stamps the deadline with the interval
ConstructFileOf(maxFiles) ==
    /\ db.nextFileId < InodeId(FILE, SHID, maxFiles)
    /\ SpanStep("CONSTRUCT_FILE",
            [type |-> FILE, note |-> "n", deadlineTime |-> Clock(db) + 1 + SpanDeadlineInterval])

LinkFileOf(files) ==
    \E fileId \in files :
        SpanStep("LINK_FILE", [fileId |-> fileId, ownerId |-> ROOT_DIR_INODE_ID, name |-> "a"])

AddInlineSpanOf(files) ==
    \E fileId \in files, byteOffset \in SpanOffsets :
        SpanStep("ADD_INLINE_SPAN",
            [fileId |-> fileId, byteOffset |-> byteOffset, size |-> TERNFS_PAGE_SIZE,
             body |-> "x", crc |-> Crc("x", TERNFS_PAGE_SIZE)])

\* a span of `blocks` mirrored blocks at one of `placements`: a location and
\* the block services picked from
Placement(locationId, services) == [locationId |-> locationId, services |-> services]

AddSpanInitiateOf(files, blocks, placements) ==
    \E fileId \in files, byteOffset \in SpanOffsets, placement \in placements :
    \E locationId \in {placement.locationId} :
    \E bodyBlocks \in [1..blocks -> {[blockServiceId |-> bs, crc |-> "c"] : bs \in placement.services}] :
        \* the block services picked are apart from one another
        /\ \A i, j \in 1..blocks :
                i # j => /\ bodyBlocks[i].blockServiceId # bodyBlocks[j].blockServiceId
                         /\ FailureDomain(bodyBlocks[i].blockServiceId) #
                                FailureDomain(bodyBlocks[j].blockServiceId)
        /\ SpanStep("ADD_SPAN_AT_LOCATION_INITIATE",
            [fileId |-> fileId, byteOffset |-> byteOffset, size |-> TERNFS_PAGE_SIZE, crc |-> "c",
             storageClass |-> FLASH_STORAGE, parity |-> <<1, blocks - 1>>, stripes |-> 1,
             cellSize |-> TERNFS_PAGE_SIZE, locationId |-> locationId, bodyBlocks |-> bodyBlocks])

\* the proofs a client holds, or none
AddSpanCertifyOf(files) ==
    \E fileId \in files, byteOffset \in SpanOffsets :
    \E proofs \in {<<>>, ProofsAt(db, fileId, byteOffset, "W")} :
        SpanStep("ADD_SPAN_CERTIFY", [fileId |-> fileId, byteOffset |-> byteOffset, proofs |-> proofs])

RemoveSpanInitiateOf(files) ==
    \E fileId \in files : SpanStep("REMOVE_SPAN_INITIATE", [fileId |-> fileId])

RemoveSpanCertifyOf(files) ==
    \E fileId \in files, byteOffset \in SpanOffsets :
    \E proofs \in {<<>>, ProofsAt(db, fileId, byteOffset, "E")} :
        SpanStep("REMOVE_SPAN_CERTIFY", [fileId |-> fileId, byteOffset |-> byteOffset, proofs |-> proofs])

\* _prepareSwapBlocks asserts that the two files differ
SwapBlocksOf(files) ==
    \E fileId1 \in files, byteOffset1 \in SpanOffsets, byteOffset2 \in SpanOffsets :
    \E fileId2 \in files \ {fileId1} :
    \E blockId1 \in {0} \cup {BlockIdsAt(db, fileId1, byteOffset1)[i] :
                                i \in DOMAIN BlockIdsAt(db, fileId1, byteOffset1)},
       blockId2 \in {0} \cup {BlockIdsAt(db, fileId2, byteOffset2)[i] :
                                i \in DOMAIN BlockIdsAt(db, fileId2, byteOffset2)} :
        SpanStep("SWAP_BLOCKS",
            [fileId1 |-> fileId1, byteOffset1 |-> byteOffset1, blockId1 |-> blockId1,
             fileId2 |-> fileId2, byteOffset2 |-> byteOffset2, blockId2 |-> blockId2])

\* _prepareSwapSpans asserts that the two files differ; the lists name the
\* blocks the spans have, or had before the swap
SwapSpansOf(files) ==
    \E fileId1 \in files, byteOffset1 \in SpanOffsets, byteOffset2 \in SpanOffsets,
       swapped \in BOOLEAN :
    \E fileId2 \in files \ {fileId1} :
        SpanStep("SWAP_SPANS",
            [fileId1 |-> fileId1, byteOffset1 |-> byteOffset1,
             blocks1 |-> IF swapped THEN BlockIdsAt(db, fileId2, byteOffset2)
                         ELSE BlockIdsAt(db, fileId1, byteOffset1),
             fileId2 |-> fileId2, byteOffset2 |-> byteOffset2,
             blocks2 |-> IF swapped THEN BlockIdsAt(db, fileId1, byteOffset1)
                         ELSE BlockIdsAt(db, fileId2, byteOffset2)])

MoveSpanOf(files) ==
    \E fileId1 \in files, byteOffset1 \in SpanOffsets, byteOffset2 \in SpanOffsets :
    \E fileId2 \in files \ {fileId1} :
        SpanStep("MOVE_SPAN",
            [fileId1 |-> fileId1, byteOffset1 |-> byteOffset1, fileId2 |-> fileId2,
             byteOffset2 |-> byteOffset2, spanSize |-> TERNFS_PAGE_SIZE])

\* _prepareAddSpanLocation asserts that the two files differ
\* The request names the blocks of the source span: those the span has now,
\* or, when the request is sent again, those a location of the destination
\* span has.
RequestedBlocks(d, fileId1, byteOffset1, fileId2, byteOffset2) ==
    {BlockIdsAt(d, fileId1, byteOffset1)} \cup
    {[i \in DOMAIN loc.blocks |-> loc.blocks[i].blockId] :
        loc \in IF SpanKey(fileId2, byteOffset2) \in DOMAIN d.spans
                   /\ ~d.spans[SpanKey(fileId2, byteOffset2)].inline
                THEN {d.spans[SpanKey(fileId2, byteOffset2)].locations[l] :
                        l \in 1..Len(d.spans[SpanKey(fileId2, byteOffset2)].locations)}
                ELSE {}}

AddSpanLocationOf(files) ==
    \E fileId1 \in files, byteOffset1 \in SpanOffsets, byteOffset2 \in SpanOffsets :
    \E fileId2 \in files \ {fileId1} :
    \E blocks1 \in RequestedBlocks(db, fileId1, byteOffset1, fileId2, byteOffset2) :
        SpanStep("ADD_SPAN_LOCATION",
            [fileId1 |-> fileId1, byteOffset1 |-> byteOffset1,
             blocks1 |-> blocks1,
             fileId2 |-> fileId2, byteOffset2 |-> byteOffset2])

RemoveZeroBlockServiceFilesOf(services) ==
    \E startBlockService \in {0} \cup services :
        SpanStep("REMOVE_ZERO_BLOCK_SERVICE_FILES",
            [startBlockService |-> startBlockService, startFile |-> NULL_INODE_ID])

SpanConstructFile == SpanReady(MaxSpanLog) /\ ConstructFileOf(MaxSpanFiles)
SpanLinkFile == SpanReady(MaxSpanLog) /\ LinkFileOf(SpanFileIds)
SpanAddInlineSpan == SpanReady(MaxSpanLog) /\ AddInlineSpanOf(SpanFileIds)
SpanAddSpanInitiate == SpanReady(MaxSpanLog) /\ AddSpanInitiateOf(SpanFileIds, 1, {Placement(l, BlockServices) : l \in LocationIds})
SpanAddSpanCertify == SpanReady(MaxSpanLog) /\ AddSpanCertifyOf(SpanFileIds)
SpanRemoveSpanInitiate == SpanReady(MaxSpanLog) /\ RemoveSpanInitiateOf(SpanFileIds)
SpanRemoveSpanCertify == SpanReady(MaxSpanLog) /\ RemoveSpanCertifyOf(SpanFileIds)
SpanSwapBlocks == SpanReady(MaxSpanLog) /\ SwapBlocksOf(SpanFileIds)
SpanSwapSpans == SpanReady(MaxSpanLog) /\ SwapSpansOf(SpanFileIds)
SpanMoveSpan == SpanReady(MaxSpanLog) /\ MoveSpanOf(SpanFileIds)
SpanAddSpanLocation == SpanReady(MaxSpanLog) /\ AddSpanLocationOf(SpanFileIds)
SpanRemoveZeroBlockServiceFiles == SpanReady(MaxSpanLog) /\ RemoveZeroBlockServiceFilesOf(BlockServices)

NextSpans ==
    \/ RespClear
    \/ SpanConstructFile
    \/ SpanLinkFile
    \/ SpanAddInlineSpan
    \/ SpanAddSpanInitiate
    \/ SpanAddSpanCertify
    \/ SpanRemoveSpanInitiate
    \/ SpanRemoveSpanCertify
    \/ SpanSwapBlocks
    \/ SpanSwapSpans
    \/ SpanMoveSpan
    \/ SpanAddSpanLocation
    \/ SpanRemoveZeroBlockServiceFiles

SpecSpans == Init /\ [][NextSpans]_vars

\* ------------------------------------------------ one file and its spans
\* One file, spans on location 0, a log long enough to add two spans, remove
\* one and add two again.
MaxTailLog == 9

TailConstructFile == SpanReady(MaxTailLog) /\ ConstructFileOf(1)
TailAddSpanInitiate == SpanReady(MaxTailLog) /\ AddSpanInitiateOf({F1}, 1, {Placement(0, BlockServices)})
TailAddSpanCertify == SpanReady(MaxTailLog) /\ AddSpanCertifyOf({F1})
TailRemoveSpanInitiate == SpanReady(MaxTailLog) /\ RemoveSpanInitiateOf({F1})
TailRemoveSpanCertify == SpanReady(MaxTailLog) /\ RemoveSpanCertifyOf({F1})
TailRemoveZeroBlockServiceFiles == SpanReady(MaxTailLog) /\ RemoveZeroBlockServiceFilesOf(BlockServices)

NextTail ==
    \/ RespClear
    \/ TailConstructFile
    \/ TailAddSpanInitiate
    \/ TailAddSpanCertify
    \/ TailRemoveSpanInitiate
    \/ TailRemoveSpanCertify
    \/ TailRemoveZeroBlockServiceFiles

SpecTail == Init /\ [][NextTail]_vars

\* ------------------------------------------------------ proofs of a span
\* One file whose spans have two blocks, and certify entries that carry the
\* proofs of the span's blocks or a variation of them.
MaxProofLog == 5

\* the proofs a client may send for the span at (fileId, byteOffset): the
\* proofs of its blocks in order, none, one too few, one too many, in reverse
\* order, the first block's proof for every block, the proofs of the other
\* operation, the right message under another block service's key, and the
\* proofs of the file's other span
ProofVariants(d, fileId, byteOffset, tag) ==
    LET good == ProofsAt(d, fileId, byteOffset, tag)
        blocks == BlocksAt(d, fileId, byteOffset)
    IN  {good, <<>>} \cup {ProofsAt(d, fileId, TERNFS_PAGE_SIZE - byteOffset, tag)} \cup
        (IF good = <<>> THEN {}
         ELSE {SubSeq(good, 1, Len(good) - 1),
               good \o <<good[Len(good)]>>,
               [i \in 1..Len(good) |-> good[Len(good) + 1 - i]],
               [i \in 1..Len(good) |-> good[1]],
               ProofsAt(d, fileId, byteOffset, IF tag = "W" THEN "E" ELSE "W"),
               [i \in 1..Len(good) |->
                    [blockId |-> blocks[i].blockId,
                     proof |-> cbcmac(SecretKey(3 - blocks[i].blockService),
                                      <<blocks[i].blockService, tag, blocks[i].blockId>>)]]})

ProofConstructFile == SpanReady(MaxProofLog) /\ ConstructFileOf(1)
ProofAddSpanInitiate == SpanReady(MaxProofLog) /\ AddSpanInitiateOf({F1}, 2, {Placement(0, {1, 3})})
ProofAddSpanCertify ==
    /\ SpanReady(MaxProofLog)
    /\ \E byteOffset \in SpanOffsets :
       \E proofs \in ProofVariants(db, F1, byteOffset, "W") :
            SpanStep("ADD_SPAN_CERTIFY", [fileId |-> F1, byteOffset |-> byteOffset, proofs |-> proofs])
ProofRemoveSpanInitiate == SpanReady(MaxProofLog) /\ RemoveSpanInitiateOf({F1})
ProofRemoveSpanCertify ==
    /\ SpanReady(MaxProofLog)
    /\ \E byteOffset \in SpanOffsets :
       \E proofs \in ProofVariants(db, F1, byteOffset, "E") :
            SpanStep("REMOVE_SPAN_CERTIFY", [fileId |-> F1, byteOffset |-> byteOffset, proofs |-> proofs])

NextProofs ==
    \/ RespClear
    \/ ProofConstructFile
    \/ ProofAddSpanInitiate
    \/ ProofAddSpanCertify
    \/ ProofRemoveSpanInitiate
    \/ ProofRemoveSpanCertify

SpecProofs == Init /\ [][NextProofs]_vars

\* ------------------------------------------------------- repeated requests
\* A log that works either on the directory D1 or on two files, and where a
\* request that was applied with success may be prepared and applied again at
\* a later time, at once or after other entries, before or after the
\* deadline of the file.
MaxRetryLog == 6

\* the latest mtime stored in the shard, directories included
ClockAll(d) ==
    SetMax({Clock(d)} \cup {d.directories[id].mtime : id \in DOMAIN d.directories})

EntryStep(entry) ==
    \E r \in {applyLogEntry(SpanOptions, db, db.lastApplied + 1, entry)} :
       IF r.err = "CRASH"
       THEN /\ aborted' = TRUE
            /\ last' = SpanApplied(entry, r, db.lastApplied + 1)
            /\ UNCHANGED <<db, readVars, db2>>
       ELSE /\ db' = r.db
            /\ last' = SpanApplied(entry, r, db.lastApplied + 1)
            /\ UNCHANGED <<aborted, readVars, db2>>

\* the log has no file yet and may work on the directory
RetryDirReady ==
    /\ SpanReady(MaxRetryLog)
    /\ db.nextFileId = initDb.nextFileId

\* the log has left the directory alone and may work on files
RetryFileReady ==
    /\ SpanReady(MaxRetryLog)
    /\ D1 \notin DOMAIN db.directories
    /\ db.snapshot = EmptyCf

RetryCreateDirectoryInode ==
    /\ RetryDirReady
    /\ EntryStep(Entry("CREATE_DIRECTORY_INODE", ClockAll(db) + 1,
                       [id |-> D1, ownerId |-> ROOT_DIR_INODE_ID, info |-> "i1"]))

RetryCreateLockedCurrentEdge ==
    /\ RetryDirReady
    /\ \E oldCreationTime \in CreationTimes(db, D1, "a") :
        EntryStep(Entry("CREATE_LOCKED_CURRENT_EDGE", ClockAll(db) + 1,
                [dirId |-> D1, name |-> "a", targetId |-> F1, oldCreationTime |-> oldCreationTime]))

RetryUnlockCurrentEdge ==
    /\ RetryDirReady
    /\ \E wasMoved \in BOOLEAN, creationTime \in CreationTimes(db, D1, "a") :
        EntryStep(Entry("UNLOCK_CURRENT_EDGE", ClockAll(db) + 1,
                [dirId |-> D1, name |-> "a", targetId |-> F1,
                 creationTime |-> creationTime, wasMoved |-> wasMoved]))

RetryRemoveDirectoryOwner ==
    /\ RetryDirReady
    /\ EntryStep(Entry("REMOVE_DIRECTORY_OWNER", ClockAll(db) + 1, [dirId |-> D1, info |-> "i1"]))

RetrySetDirectoryOwner ==
    /\ RetryDirReady
    /\ EntryStep(Entry("SET_DIRECTORY_OWNER", ClockAll(db) + 1,
                       [dirId |-> D1, ownerId |-> ROOT_DIR_INODE_ID]))

RetryRemoveNonOwnedEdge ==
    /\ RetryDirReady
    /\ \E creationTime \in CreationTimes(db, D1, "a") :
        EntryStep(Entry("REMOVE_NON_OWNED_EDGE", ClockAll(db) + 1,
                [dirId |-> D1, name |-> "a", creationTime |-> creationTime]))

RetryConstructFile == RetryFileReady /\ ConstructFileOf(MaxSpanFiles)
RetryLinkFile == RetryFileReady /\ LinkFileOf(SpanFileIds)
RetryAddSpanInitiate == RetryFileReady /\ AddSpanInitiateOf(SpanFileIds, 1, {Placement(0, BlockServices)})
RetryAddSpanCertify == RetryFileReady /\ AddSpanCertifyOf(SpanFileIds)
RetrySwapBlocks == RetryFileReady /\ SwapBlocksOf(SpanFileIds)
RetrySwapSpans == RetryFileReady /\ SwapSpansOf(SpanFileIds)

\* the requests whose repetition is answered as already done
RetryKinds ==
    {"LINK_FILE", "ADD_SPAN_AT_LOCATION_INITIATE", "ADD_SPAN_CERTIFY", "SWAP_BLOCKS", "SWAP_SPANS",
     "REMOVE_NON_OWNED_EDGE", "SET_DIRECTORY_OWNER", "REMOVE_DIRECTORY_OWNER"}

\* the client keeps a request that was applied with success, to send it
\* again later, and the index it was applied at
RetryRemember ==
    /\ ~aborted
    /\ last # NoEntry
    /\ last.err = "NO_ERROR"
    /\ last.kind \in RetryKinds
    /\ pending = <<>>
    /\ pending' = <<[entry |-> last.entry, index |-> last.index]>>
    /\ last' = NoEntry
    /\ UNCHANGED <<db, aborted, currentReadSnapshot, flusher, reader, history, db2, buf>>

\* the log times of a repetition: the next one, and one that is later than
\* every deadline stored
RetryTimes(d) == {ClockAll(d) + 1, ClockAll(d) + 1 + SpanDeadlineInterval}

\* the request kept is prepared again, which gives the same entry with a
\* later time, and applied again, after whatever the log has applied
\* meanwhile; `last` notes that it was a repetition
Retry ==
    /\ ~aborted
    /\ last = NoEntry
    /\ pending # <<>>
    /\ db.lastApplied < MaxRetryLog
    /\ \E time \in RetryTimes(db) :
       \E entry \in {[Head(pending).entry EXCEPT !.time = time]} :
       \E r \in {applyLogEntry(SpanOptions, db, db.lastApplied + 1, entry)} :
          /\ pending' = <<>>
          /\ last' = SpanApplied(entry, r, db.lastApplied + 1) @@ [repeated |-> TRUE]
          /\ IF r.err = "CRASH"
             THEN /\ aborted' = TRUE
                  /\ UNCHANGED <<db, currentReadSnapshot, flusher, reader, history, db2, buf>>
             ELSE /\ db' = r.db
                  /\ UNCHANGED <<aborted, currentReadSnapshot, flusher, reader, history, db2, buf>>

NextRetry ==
    \/ RespClear
    \/ RetryCreateDirectoryInode
    \/ RetryCreateLockedCurrentEdge
    \/ RetryUnlockCurrentEdge
    \/ RetryRemoveDirectoryOwner
    \/ RetrySetDirectoryOwner
    \/ RetryRemoveNonOwnedEdge
    \/ RetryConstructFile
    \/ RetryLinkFile
    \/ RetryAddSpanInitiate
    \/ RetryAddSpanCertify
    \/ RetrySwapBlocks
    \/ RetrySwapSpans
    \/ RetryRemember
    \/ Retry

SpecRetry == Init /\ [][NextRetry]_vars

\* ------------------------------------------------- the same span once more
\* One file, and AddSpanInitiate requests that differ from one another in a
\* single attribute.  Block services 1 and 3 are flash, in two failure domains,
\* block services 2 and 4 are disks.
MaxInitiateLog == 4

\* the request a client sends first, without its file and offset
BaseSpan ==
    [size |-> TERNFS_PAGE_SIZE, crc |-> "c", storageClass |-> FLASH_STORAGE, parity |-> <<1, 0>>,
     stripes |-> 1, cellSize |-> TERNFS_PAGE_SIZE, locationId |-> 0]

SpanVariations ==
    {BaseSpan,
     [BaseSpan EXCEPT !.size = 2 * TERNFS_PAGE_SIZE],
     [BaseSpan EXCEPT !.crc = "d"],
     [BaseSpan EXCEPT !.storageClass = HDD_STORAGE],
     [BaseSpan EXCEPT !.parity = <<1, 1>>],
     [BaseSpan EXCEPT !.stripes = 2],
     [BaseSpan EXCEPT !.cellSize = 2 * TERNFS_PAGE_SIZE],
     [BaseSpan EXCEPT !.locationId = 1]}

\* _prepareAddSpanInitiate: a disk span in location 1 is stored on flash, and
\* the blocks go to block services of the entry's storage class, each one to
\* another block service in another failure domain
InitiateEntry(fileId, byteOffset, req) ==
    LET storageClass == IF req.locationId = 1 /\ req.storageClass = HDD_STORAGE
                        THEN FLASH_STORAGE ELSE req.storageClass
    IN  [req EXCEPT !.storageClass = storageClass] @@
        [fileId |-> fileId, byteOffset |-> byteOffset,
         bodyBlocks |-> [i \in 1..ParityBlocks(req.parity) |->
                            [blockServiceId |-> IF storageClass = FLASH_STORAGE THEN 2 * i - 1 ELSE 2 * i,
                             crc |-> "c"]]]

InitiateConstructFile == SpanReady(MaxInitiateLog) /\ ConstructFileOf(1)
InitiateAddSpanInitiate ==
    /\ SpanReady(MaxInitiateLog)
    /\ \E byteOffset \in SpanOffsets, req \in SpanVariations :
            SpanStep("ADD_SPAN_AT_LOCATION_INITIATE", InitiateEntry(F1, byteOffset, req))
InitiateAddSpanCertify == SpanReady(MaxInitiateLog) /\ AddSpanCertifyOf({F1})

NextInitiate ==
    \/ RespClear
    \/ InitiateConstructFile
    \/ InitiateAddSpanInitiate
    \/ InitiateAddSpanCertify

SpecInitiate == Init /\ [][NextInitiate]_vars

\* ---------------------------------------------------------------- requests
\* A request goes through prepareLogEntry and, when that gives an entry,
\* through applyLogEntry; a read goes through read.  Names are sequences of
\* bytes: 'a' is 97, '.' is 46, '/' is 47.
MaxRequestLog == 4

validName(name) ==
    /\ Len(name) # 0
    /\ name # <<46>>
    /\ name # <<46, 46>>
    /\ \A i \in 1..Len(name) : name[i] # 47 /\ name[i] # 0

InodeShard(id) == id % 256

\* _calcCookie: a MAC of the id under the shard's key
calcCookie(id) == <<"cookie", id>>

checkTransientFileCookie(id, cookie) ==
    IF ~IsFileType(id) THEN "TYPE_IS_DIRECTORY"
    ELSE IF cookie # calcCookie(id) THEN "BAD_COOKIE"
    ELSE "NO_ERROR"

Prepared(kind, time, body) == [err |-> "NO_ERROR", entry |-> Entry(kind, time, body)]
NotPrepared(err) == [err |-> err, entry |-> [kind |-> "NONE"]]

prepareConstructFile(interval, time, req) ==
    IF req.type # FILE /\ req.type # SYMLINK THEN NotPrepared("TYPE_IS_DIRECTORY")
    ELSE Prepared("CONSTRUCT_FILE", time,
                  [type |-> req.type, note |-> req.note, deadlineTime |-> time + interval])

prepareLinkFile(time, req) ==
    IF InodeType(req.ownerId) # DIRECTORY THEN NotPrepared("TYPE_IS_NOT_DIRECTORY")
    ELSE IF InodeShard(req.ownerId) # SHID \/ InodeShard(req.fileId) # SHID THEN NotPrepared("BAD_SHARD")
    ELSE IF checkTransientFileCookie(req.fileId, req.cookie) # "NO_ERROR"
         THEN NotPrepared(checkTransientFileCookie(req.fileId, req.cookie))
    ELSE Prepared("LINK_FILE", time, [fileId |-> req.fileId, name |-> req.name, ownerId |-> req.ownerId])

\* BincodeBytes::operator==: the sizes, then strncmp over size() bytes, which
\* stops at the first NUL the two have in common
bytesEqual(lhs, rhs) ==
    /\ Len(lhs) = Len(rhs)
    /\ \A i \in 1..Len(lhs) : (\A j \in 1..(i - 1) : lhs[j] # 0) => lhs[i] = rhs[i]

\* _prepareSameDirectoryRename<DontAllowDifferentNames>, for both renames
prepareSameDirectoryRename(DontAllowDifferentNames, time, req) ==
    IF InodeType(req.dirId) # DIRECTORY THEN NotPrepared("TYPE_IS_NOT_DIRECTORY")
    ELSE IF DontAllowDifferentNames /\ bytesEqual(req.oldName, req.newName)
         THEN NotPrepared("SAME_SOURCE_AND_DESTINATION")
    ELSE IF ~validName(req.newName) THEN NotPrepared("BAD_NAME")
    ELSE IF InodeShard(req.dirId) # SHID THEN NotPrepared("BAD_SHARD")
    ELSE Prepared(req.kind, time,
                  [dirId |-> req.dirId, oldCreationTime |-> req.oldCreationTime, oldName |-> req.oldName,
                   newName |-> req.newName, targetId |-> req.targetId])

prepareCreateLockedCurrentEdge(time, req) ==
    IF InodeType(req.dirId) # DIRECTORY THEN NotPrepared("TYPE_IS_NOT_DIRECTORY")
    ELSE IF InodeShard(req.dirId) # SHID THEN NotPrepared("BAD_SHARD")
    ELSE IF ~validName(req.name) THEN NotPrepared("BAD_NAME")
    ELSE IF req.targetId = NULL_INODE_ID THEN NotPrepared("CRASH")
    ELSE Prepared("CREATE_LOCKED_CURRENT_EDGE", time,
                  [dirId |-> req.dirId, targetId |-> req.targetId, name |-> req.name,
                   oldCreationTime |-> req.oldCreationTime])

EMPTY_STORAGE == 0
INLINE_STORAGE == 1

\* _prepareAddSpanInitiate on a request whose body passes _checkSpanBody;
\* `picked` are the block services the preparation picks, one per block
prepareAddSpanInitiate(time, locationId, req, reference, picked) ==
    IF ~IsFileType(req.fileId) THEN NotPrepared("TYPE_IS_DIRECTORY")
    ELSE IF ~IsFileType(reference) THEN NotPrepared("TYPE_IS_DIRECTORY")
    ELSE IF InodeShard(req.fileId) # SHID THEN NotPrepared("BAD_SHARD")
    ELSE IF checkTransientFileCookie(req.fileId, req.cookie) # "NO_ERROR"
         THEN NotPrepared(checkTransientFileCookie(req.fileId, req.cookie))
    ELSE IF req.storageClass = INLINE_STORAGE \/ req.storageClass = EMPTY_STORAGE
         THEN NotPrepared("BAD_SPAN_BODY")
    ELSE IF req.byteOffset % TERNFS_PAGE_SIZE # 0 \/ req.cellSize % TERNFS_PAGE_SIZE # 0
         THEN NotPrepared("BAD_SPAN_BODY")
    ELSE IF Len(picked) < ParityBlocks(req.parity) THEN NotPrepared("COULD_NOT_PICK_BLOCK_SERVICES")
    ELSE Prepared("ADD_SPAN_AT_LOCATION_INITIATE", time,
                  [locationId |-> locationId, withReference |-> FALSE, fileId |-> req.fileId,
                   byteOffset |-> req.byteOffset,
                   storageClass |-> IF locationId = 1 /\ req.storageClass = HDD_STORAGE
                                    THEN FLASH_STORAGE ELSE req.storageClass,
                   parity |-> req.parity, size |-> req.size, cellSize |-> req.cellSize,
                   crc |-> req.crc, stripes |-> req.stripes,
                   bodyBlocks |-> [i \in 1..ParityBlocks(req.parity) |->
                                        [blockServiceId |-> picked[i], crc |-> "c"]]])

prepareAddSpanCertify(time, req) ==
    IF ~IsFileType(req.fileId) THEN NotPrepared("TYPE_IS_DIRECTORY")
    ELSE IF InodeShard(req.fileId) # SHID THEN NotPrepared("BAD_SHARD")
    ELSE IF checkTransientFileCookie(req.fileId, req.cookie) # "NO_ERROR"
         THEN NotPrepared(checkTransientFileCookie(req.fileId, req.cookie))
    ELSE Prepared("ADD_SPAN_CERTIFY", time,
                  [fileId |-> req.fileId, byteOffset |-> req.byteOffset, proofs |-> req.proofs])

prepareSoftUnlinkFile(time, req) ==
    IF InodeType(req.ownerId) # DIRECTORY THEN NotPrepared("TYPE_IS_NOT_DIRECTORY")
    ELSE IF ~IsFileType(req.fileId) THEN NotPrepared("TYPE_IS_DIRECTORY")
    ELSE IF InodeShard(req.ownerId) # SHID THEN NotPrepared("BAD_SHARD")
    ELSE Prepared("SOFT_UNLINK_FILE", time,
                  [ownerId |-> req.ownerId, fileId |-> req.fileId, name |-> req.name,
                   creationTime |-> req.creationTime])

prepareCreateDirectoryInode(time, req) ==
    IF InodeShard(req.id) # SHID THEN NotPrepared("BAD_SHARD")
    ELSE IF InodeType(req.id) # DIRECTORY \/ InodeType(req.ownerId) # DIRECTORY
         THEN NotPrepared("TYPE_IS_NOT_DIRECTORY")
    ELSE Prepared("CREATE_DIRECTORY_INODE", time,
                  [id |-> req.id, ownerId |-> req.ownerId, info |-> req.info])

prepareUnlockCurrentEdge(time, req) ==
    IF InodeType(req.dirId) # DIRECTORY THEN NotPrepared("TYPE_IS_NOT_DIRECTORY")
    ELSE IF InodeShard(req.dirId) # SHID THEN NotPrepared("BAD_SHARD")
    ELSE Prepared("UNLOCK_CURRENT_EDGE", time,
                  [dirId |-> req.dirId, targetId |-> req.targetId, name |-> req.name,
                   wasMoved |-> req.wasMoved, creationTime |-> req.creationTime])

prepareLockCurrentEdge(time, req) ==
    IF InodeType(req.dirId) # DIRECTORY THEN NotPrepared("TYPE_IS_NOT_DIRECTORY")
    ELSE IF InodeShard(req.dirId) # SHID THEN NotPrepared("BAD_SHARD")
    ELSE Prepared("LOCK_CURRENT_EDGE", time,
                  [dirId |-> req.dirId, name |-> req.name, targetId |-> req.targetId,
                   creationTime |-> req.creationTime])

prepareRemoveDirectoryOwner(time, req) ==
    IF InodeType(req.dirId) # DIRECTORY THEN NotPrepared("TYPE_IS_NOT_DIRECTORY")
    ELSE IF InodeShard(req.dirId) # SHID THEN NotPrepared("BAD_SHARD")
    ELSE IF req.dirId = ROOT_DIR_INODE_ID THEN NotPrepared("CRASH")
    ELSE Prepared("REMOVE_DIRECTORY_OWNER", time, [dirId |-> req.dirId, info |-> req.info])

prepareRemoveInode(time, req) ==
    IF InodeShard(req.id) # SHID THEN NotPrepared("BAD_SHARD")
    ELSE IF req.id = ROOT_DIR_INODE_ID THEN NotPrepared("CANNOT_REMOVE_ROOT_DIRECTORY")
    ELSE Prepared("REMOVE_INODE", time, [id |-> req.id])

prepareSetDirectoryOwner(time, req) ==
    IF InodeType(req.dirId) # DIRECTORY THEN NotPrepared("TYPE_IS_NOT_DIRECTORY")
    ELSE IF InodeShard(req.dirId) # SHID THEN NotPrepared("BAD_SHARD")
    ELSE IF InodeType(req.ownerId) # DIRECTORY THEN NotPrepared("TYPE_IS_NOT_DIRECTORY")
    ELSE Prepared("SET_DIRECTORY_OWNER", time, [dirId |-> req.dirId, ownerId |-> req.ownerId])

prepareSetDirectoryInfo(time, req) ==
    IF InodeType(req.id) # DIRECTORY THEN NotPrepared("TYPE_IS_NOT_DIRECTORY")
    ELSE IF InodeShard(req.id) # SHID THEN NotPrepared("BAD_SHARD")
    ELSE Prepared("SET_DIRECTORY_INFO", time, [dirId |-> req.id, info |-> req.info])

prepareRemoveNonOwnedEdge(time, req) ==
    IF InodeType(req.dirId) # DIRECTORY THEN NotPrepared("TYPE_IS_NOT_DIRECTORY")
    ELSE IF InodeShard(req.dirId) # SHID THEN NotPrepared("BAD_SHARD")
    ELSE Prepared("REMOVE_NON_OWNED_EDGE", time,
                  [dirId |-> req.dirId, creationTime |-> req.creationTime, name |-> req.name])

\* `ub` is not of the request: it is what the apply reads from a directory
\* body it never got
prepareSameShardHardFileUnlink(time, req) ==
    IF InodeType(req.ownerId) # DIRECTORY THEN NotPrepared("TYPE_IS_NOT_DIRECTORY")
    ELSE IF ~IsFileType(req.targetId) THEN NotPrepared("TYPE_IS_DIRECTORY")
    ELSE IF InodeShard(req.ownerId) # SHID \/ InodeShard(req.targetId) # SHID
         THEN NotPrepared("BAD_SHARD")
    ELSE Prepared("SAME_SHARD_HARD_FILE_UNLINK", time,
                  [ownerId |-> req.ownerId, targetId |-> req.targetId, name |-> req.name,
                   creationTime |-> req.creationTime, deadlineTime |-> time, ub |-> req.ub])

prepareRemoveSpanInitiate(time, req) ==
    IF ~IsFileType(req.fileId) THEN NotPrepared("TYPE_IS_DIRECTORY")
    ELSE IF InodeShard(req.fileId) # SHID THEN NotPrepared("BAD_SHARD")
    ELSE IF checkTransientFileCookie(req.fileId, req.cookie) # "NO_ERROR"
         THEN NotPrepared(checkTransientFileCookie(req.fileId, req.cookie))
    ELSE Prepared("REMOVE_SPAN_INITIATE", time, [fileId |-> req.fileId])

\* req.body.size(): bodies are "" and "x"
bodySize(body) == IF body = "" THEN 0 ELSE 1

prepareAddInlineSpan(time, req) ==
    IF ~IsFileType(req.fileId) THEN NotPrepared("TYPE_IS_DIRECTORY")
    ELSE IF InodeShard(req.fileId) # SHID THEN NotPrepared("BAD_SHARD")
    ELSE IF checkTransientFileCookie(req.fileId, req.cookie) # "NO_ERROR"
         THEN NotPrepared(checkTransientFileCookie(req.fileId, req.cookie))
    ELSE IF req.storageClass = EMPTY_STORAGE /\ req.size # 0 THEN NotPrepared("BAD_SPAN_BODY")
    ELSE IF req.storageClass = INLINE_STORAGE /\ (req.size = 0 \/ req.size < bodySize(req.body))
         THEN NotPrepared("BAD_SPAN_BODY")
    ELSE IF req.storageClass \notin {EMPTY_STORAGE, INLINE_STORAGE} THEN NotPrepared("BAD_SPAN_BODY")
    ELSE IF req.byteOffset % TERNFS_PAGE_SIZE # 0 THEN NotPrepared("BAD_SPAN_BODY")
    ELSE IF Crc(req.body, req.size) # req.crc THEN NotPrepared("BAD_SPAN_BODY")
    ELSE Prepared("ADD_INLINE_SPAN", time,
                  [fileId |-> req.fileId, storageClass |-> req.storageClass,
                   byteOffset |-> req.byteOffset, size |-> req.size, body |-> req.body,
                   crc |-> req.crc])

prepareMakeFileTransient(time, req) ==
    IF ~IsFileType(req.id) THEN NotPrepared("TYPE_IS_DIRECTORY")
    ELSE IF InodeShard(req.id) # SHID THEN NotPrepared("BAD_SHARD")
    ELSE Prepared("MAKE_FILE_TRANSIENT", time,
                  [id |-> req.id, note |-> req.note, deadlineTime |-> time])

prepareScrapTransientFile(time, req) ==
    IF InodeType(req.id) # FILE THEN NotPrepared("FILE_IS_NOT_TRANSIENT")
    ELSE IF InodeShard(req.id) # SHID THEN NotPrepared("BAD_SHARD")
    ELSE IF checkTransientFileCookie(req.id, req.cookie) # "NO_ERROR"
         THEN NotPrepared(checkTransientFileCookie(req.id, req.cookie))
    ELSE Prepared("SCRAP_TRANSIENT_FILE", time, [id |-> req.id, deadlineTime |-> time])

prepareRemoveSpanCertify(time, req) ==
    IF ~IsFileType(req.fileId) THEN NotPrepared("TYPE_IS_DIRECTORY")
    ELSE IF InodeShard(req.fileId) # SHID THEN NotPrepared("BAD_SHARD")
    ELSE IF checkTransientFileCookie(req.fileId, req.cookie) # "NO_ERROR"
         THEN NotPrepared(checkTransientFileCookie(req.fileId, req.cookie))
    ELSE Prepared("REMOVE_SPAN_CERTIFY", time,
                  [fileId |-> req.fileId, byteOffset |-> req.byteOffset, proofs |-> req.proofs])

prepareRemoveOwnedSnapshotFileEdge(time, req) ==
    IF InodeType(req.ownerId) # DIRECTORY THEN NotPrepared("TYPE_IS_NOT_DIRECTORY")
    ELSE IF InodeShard(req.ownerId) # SHID THEN NotPrepared("BAD_SHARD")
    ELSE IF ~IsFileType(req.targetId) THEN NotPrepared("TYPE_IS_DIRECTORY")
    ELSE Prepared("REMOVE_OWNED_SNAPSHOT_FILE_EDGE", time,
                  [ownerId |-> req.ownerId, targetId |-> req.targetId,
                   creationTime |-> req.creationTime, name |-> req.name])

\* the checks _prepareSwapBlocks, _prepareSwapSpans and _prepareAddSpanLocation
\* share: the types, the shards, and the assertion that the files differ
twoFilesError(req) ==
    IF InodeType(req.fileId1) = DIRECTORY \/ InodeType(req.fileId2) = DIRECTORY
    THEN "TYPE_IS_DIRECTORY"
    ELSE IF InodeShard(req.fileId1) # SHID \/ InodeShard(req.fileId2) # SHID THEN "BAD_SHARD"
    ELSE IF req.fileId1 = req.fileId2 THEN "CRASH"
    ELSE "NO_ERROR"

prepareSwapBlocks(time, req) ==
    IF twoFilesError(req) # "NO_ERROR" THEN NotPrepared(twoFilesError(req))
    ELSE Prepared("SWAP_BLOCKS", time,
                  [fileId1 |-> req.fileId1, byteOffset1 |-> req.byteOffset1, blockId1 |-> req.blockId1,
                   fileId2 |-> req.fileId2, byteOffset2 |-> req.byteOffset2, blockId2 |-> req.blockId2])

prepareSwapSpans(time, req) ==
    IF twoFilesError(req) # "NO_ERROR" THEN NotPrepared(twoFilesError(req))
    ELSE Prepared("SWAP_SPANS", time,
                  [fileId1 |-> req.fileId1, byteOffset1 |-> req.byteOffset1, blocks1 |-> req.blocks1,
                   fileId2 |-> req.fileId2, byteOffset2 |-> req.byteOffset2, blocks2 |-> req.blocks2])

prepareAddSpanLocation(time, req) ==
    IF twoFilesError(req) # "NO_ERROR" THEN NotPrepared(twoFilesError(req))
    ELSE Prepared("ADD_SPAN_LOCATION", time,
                  [fileId1 |-> req.fileId1, byteOffset1 |-> req.byteOffset1, blocks1 |-> req.blocks1,
                   fileId2 |-> req.fileId2, byteOffset2 |-> req.byteOffset2])

prepareMoveSpan(time, req) ==
    IF InodeType(req.fileId1) = DIRECTORY \/ InodeType(req.fileId2) = DIRECTORY
    THEN NotPrepared("TYPE_IS_DIRECTORY")
    ELSE IF InodeShard(req.fileId1) # SHID \/ InodeShard(req.fileId2) # SHID
         THEN NotPrepared("BAD_SHARD")
    ELSE IF checkTransientFileCookie(req.fileId1, req.cookie1) # "NO_ERROR"
         THEN NotPrepared(checkTransientFileCookie(req.fileId1, req.cookie1))
    ELSE IF checkTransientFileCookie(req.fileId2, req.cookie2) # "NO_ERROR"
         THEN NotPrepared(checkTransientFileCookie(req.fileId2, req.cookie2))
    ELSE Prepared("MOVE_SPAN", time,
                  [fileId1 |-> req.fileId1, cookie1 |-> req.cookie1, byteOffset1 |-> req.byteOffset1,
                   fileId2 |-> req.fileId2, cookie2 |-> req.cookie2, byteOffset2 |-> req.byteOffset2,
                   spanSize |-> req.spanSize])

prepareSetTime(time, req) ==
    IF InodeType(req.id) = DIRECTORY THEN NotPrepared("TYPE_IS_DIRECTORY")
    ELSE IF InodeShard(req.id) # SHID THEN NotPrepared("BAD_SHARD")
    ELSE Prepared("SET_TIME", time, [id |-> req.id, atime |-> req.atime, mtime |-> req.mtime])

prepareRemoveZeroBlockServiceFiles(time, req) ==
    Prepared("REMOVE_ZERO_BLOCK_SERVICE_FILES", time,
             [startBlockService |-> req.startBlockService, startFile |-> req.startFile])

\* the switch of prepareLogEntry; a request of a kind it does not know makes
\* it throw
prepareLogEntry(interval, time, req, picked) ==
    CASE req.kind = "CONSTRUCT_FILE" -> prepareConstructFile(interval, time, req)
      [] req.kind = "LINK_FILE" -> prepareLinkFile(time, req)
      [] req.kind = "SAME_DIRECTORY_RENAME" -> prepareSameDirectoryRename(TRUE, time, req)
      [] req.kind = "SAME_DIRECTORY_RENAME_SNAPSHOT" -> prepareSameDirectoryRename(FALSE, time, req)
      [] req.kind = "SOFT_UNLINK_FILE" -> prepareSoftUnlinkFile(time, req)
      [] req.kind = "CREATE_DIRECTORY_INODE" -> prepareCreateDirectoryInode(time, req)
      [] req.kind = "CREATE_LOCKED_CURRENT_EDGE" -> prepareCreateLockedCurrentEdge(time, req)
      [] req.kind = "UNLOCK_CURRENT_EDGE" -> prepareUnlockCurrentEdge(time, req)
      [] req.kind = "LOCK_CURRENT_EDGE" -> prepareLockCurrentEdge(time, req)
      [] req.kind = "REMOVE_DIRECTORY_OWNER" -> prepareRemoveDirectoryOwner(time, req)
      [] req.kind = "REMOVE_INODE" -> prepareRemoveInode(time, req)
      [] req.kind = "SET_DIRECTORY_OWNER" -> prepareSetDirectoryOwner(time, req)
      [] req.kind = "SET_DIRECTORY_INFO" -> prepareSetDirectoryInfo(time, req)
      [] req.kind = "REMOVE_NON_OWNED_EDGE" -> prepareRemoveNonOwnedEdge(time, req)
      [] req.kind = "SAME_SHARD_HARD_FILE_UNLINK" -> prepareSameShardHardFileUnlink(time, req)
      [] req.kind = "REMOVE_SPAN_INITIATE" -> prepareRemoveSpanInitiate(time, req)
      [] req.kind = "ADD_INLINE_SPAN" -> prepareAddInlineSpan(time, req)
      [] req.kind = "ADD_SPAN_INITIATE" ->
            prepareAddSpanInitiate(time, DEFAULT_LOCATION, req, req.fileId, picked)
      [] req.kind = "ADD_SPAN_INITIATE_WITH_REFERENCE" ->
            prepareAddSpanInitiate(time, DEFAULT_LOCATION, req, req.reference, picked)
      [] req.kind = "ADD_SPAN_AT_LOCATION_INITIATE" ->
            prepareAddSpanInitiate(time, req.locationId, req,
                                   IF req.reference = NULL_INODE_ID THEN req.fileId ELSE req.reference,
                                   picked)
      [] req.kind = "ADD_SPAN_CERTIFY" -> prepareAddSpanCertify(time, req)
      [] req.kind = "MAKE_FILE_TRANSIENT" -> prepareMakeFileTransient(time, req)
      [] req.kind = "SCRAP_TRANSIENT_FILE" -> prepareScrapTransientFile(time, req)
      [] req.kind = "REMOVE_SPAN_CERTIFY" -> prepareRemoveSpanCertify(time, req)
      [] req.kind = "REMOVE_OWNED_SNAPSHOT_FILE_EDGE" -> prepareRemoveOwnedSnapshotFileEdge(time, req)
      [] req.kind = "SWAP_BLOCKS" -> prepareSwapBlocks(time, req)
      [] req.kind = "MOVE_SPAN" -> prepareMoveSpan(time, req)
      [] req.kind = "SET_TIME" -> prepareSetTime(time, req)
      [] req.kind = "REMOVE_ZERO_BLOCK_SERVICE_FILES" -> prepareRemoveZeroBlockServiceFiles(time, req)
      [] req.kind = "SWAP_SPANS" -> prepareSwapSpans(time, req)
      [] req.kind = "ADD_SPAN_LOCATION" -> prepareAddSpanLocation(time, req)
      [] OTHER -> NotPrepared("EXCEPTION")

\* the member of the response container that the switch of applyLogEntry sets
applyRespKind(entry) ==
    CASE entry.kind = "ADD_SPAN_INITIATE" ->
            IF entry.withReference THEN "ADD_SPAN_INITIATE_WITH_REFERENCE" ELSE "ADD_SPAN_INITIATE"
      [] entry.kind = "MAKE_FILE_TRANSIENT_DE_PR_EC_AT_ED" -> "MAKE_FILE_TRANSIENT"
      [] OTHER -> entry.kind

\* the response container when applyLogEntry or read returns: the member set
\* by the switch, or the error set over it
ShardResp(kind, err) ==
    IF err # "NO_ERROR" THEN [kind |-> "ERROR", error |-> err] ELSE [kind |-> kind]

\* the member of the response container that the switch of read sets
readRespKind(req) ==
    CASE req.kind = "STAT_DIRECTORY" -> "STAT_DIRECTORY"
      [] req.kind = "LOOKUP" -> "LOOKUP"

\* The caller of prepareLogEntry puts the entry it gets in the log, and
\* applyLogEntry is called on it later: other requests are prepared and other
\* entries are applied in between.  At most MaxPending entries wait.
MaxPending == 2

RequestReady ==
    /\ ~aborted
    /\ last = NoEntry
    /\ Len(pending) < MaxPending
    /\ db.lastApplied + Len(pending) < MaxRequestLog

\* ternNow(): the clock has moved on since the last time it was read
RequestTime == ClockAll(db) + 1 + Len(pending)

\* prepareLogEntry of one request.  `last` keeps the request and the error of
\* a preparation that gave no entry.
RequestPrepare(req, picked) ==
    \E p \in {prepareLogEntry(SpanDeadlineInterval, RequestTime, req, picked)} :
        IF p.err = "CRASH"
        THEN /\ aborted' = TRUE
             /\ last' = [kind |-> req.kind, req |-> req, prepareErr |-> p.err, err |-> p.err,
                         resp |-> [kind |-> "NONE"]]
             /\ UNCHANGED <<db, readVars, db2>>
        ELSE IF p.err # "NO_ERROR"
        THEN /\ last' = [kind |-> req.kind, req |-> req, prepareErr |-> p.err, err |-> p.err,
                         resp |-> [kind |-> "NONE"]]
             /\ UNCHANGED <<db, aborted, readVars, db2>>
        ELSE /\ pending' = Append(pending, [req |-> req, entry |-> p.entry])
             /\ UNCHANGED <<db, aborted, last, currentReadSnapshot, flusher, reader, history, db2, buf>>

\* applyLogEntry of the entry that waits longest, at the next index.  `last`
\* keeps the request it was prepared for and the response.
RequestApply ==
    /\ ~aborted
    /\ last = NoEntry
    /\ pending # <<>>
    /\ \E r \in {applyLogEntry(SpanOptions, db, db.lastApplied + 1, Head(pending).entry)} :
        /\ pending' = Tail(pending)
        /\ IF r.err = "CRASH"
           THEN /\ aborted' = TRUE
                /\ last' = [kind |-> Head(pending).req.kind, req |-> Head(pending).req,
                            prepareErr |-> "NO_ERROR", err |-> r.err, resp |-> [kind |-> "NONE"]]
                /\ UNCHANGED <<db, currentReadSnapshot, flusher, reader, history, db2, buf>>
           ELSE /\ db' = r.db
                /\ last' = [kind |-> Head(pending).req.kind, req |-> Head(pending).req,
                            prepareErr |-> "NO_ERROR", err |-> r.err,
                            resp |-> ShardResp(applyRespKind(Head(pending).entry), r.err)]
                /\ UNCHANGED <<aborted, currentReadSnapshot, flusher, reader, history, db2, buf>>

\* the names requests carry: a, the empty name, ., .., a/, two names with a
\* NUL that are the same up to it, ...
RequestNames ==
    {<<97>>, <<>>, <<46>>, <<46, 46>>, <<97, 47>>, <<97, 0, 98>>, <<97, 0, 99>>, <<46, 46, 46>>}

\* the names of the edges stored, and a
EdgeNames == {k[2] : k \in DOMAIN db.current \cup DOMAIN db.snapshot} \cup {<<97>>}

ReqConstructFile ==
    /\ RequestReady
    /\ db.nextFileId < F1
    /\ \A i \in 1..Len(pending) : pending[i].req.kind # "CONSTRUCT_FILE"
    /\ \E type \in {FILE, DIRECTORY} :
        RequestPrepare([kind |-> "CONSTRUCT_FILE", type |-> type, note |-> "n"], <<>>)

ReqLinkFile ==
    /\ RequestReady
    /\ \E name \in RequestNames :
        RequestPrepare([kind |-> "LINK_FILE", fileId |-> F1, ownerId |-> ROOT_DIR_INODE_ID,
                        name |-> name, cookie |-> calcCookie(F1)], <<>>)

ReqSameDirectoryRename ==
    /\ RequestReady
    /\ \E kind \in {"SAME_DIRECTORY_RENAME", "SAME_DIRECTORY_RENAME_SNAPSHOT"},
          oldName \in EdgeNames, newName \in RequestNames :
       \E oldCreationTime \in CreationTimes(db, ROOT_DIR_INODE_ID, oldName) :
        RequestPrepare([kind |-> kind, dirId |-> ROOT_DIR_INODE_ID, targetId |-> F1,
                        oldName |-> oldName, newName |-> newName,
                        oldCreationTime |-> oldCreationTime], <<>>)

ReqCreateLockedCurrentEdge ==
    /\ RequestReady
    /\ \E name \in RequestNames, targetId \in {F1, NULL_INODE_ID} :
       \E oldCreationTime \in CreationTimes(db, ROOT_DIR_INODE_ID, name) :
        RequestPrepare([kind |-> "CREATE_LOCKED_CURRENT_EDGE", dirId |-> ROOT_DIR_INODE_ID,
                        name |-> name, targetId |-> targetId,
                        oldCreationTime |-> oldCreationTime], <<>>)

\* the three requests that add a blocked span
ReqAddSpanInitiate ==
    /\ RequestReady
    /\ \E kind \in {"ADD_SPAN_INITIATE", "ADD_SPAN_INITIATE_WITH_REFERENCE",
                    "ADD_SPAN_AT_LOCATION_INITIATE"},
          byteOffset \in SpanOffsets, picked \in {<<bs>> : bs \in BlockServices} :
        RequestPrepare([kind |-> kind, locationId |-> DEFAULT_LOCATION, reference |-> F1, fileId |-> F1,
                        cookie |-> calcCookie(F1), byteOffset |-> byteOffset,
                        size |-> TERNFS_PAGE_SIZE, crc |-> "c", storageClass |-> FLASH_STORAGE,
                        parity |-> <<1, 0>>, stripes |-> 1, cellSize |-> TERNFS_PAGE_SIZE], picked)

ReqAddSpanCertify ==
    /\ RequestReady
    /\ \E byteOffset \in SpanOffsets :
       \E proofs \in {<<>>, ProofsAt(db, F1, byteOffset, "W")} :
        RequestPrepare([kind |-> "ADD_SPAN_CERTIFY", fileId |-> F1, cookie |-> calcCookie(F1),
                        byteOffset |-> byteOffset, proofs |-> proofs], <<>>)

\* the requests on the edges of the root directory
EdgeRequests ==
    UNION {UNION {
        {[kind |-> "SOFT_UNLINK_FILE", ownerId |-> ROOT_DIR_INODE_ID, fileId |-> F1, name |-> name,
          creationTime |-> creationTime],
         [kind |-> "UNLOCK_CURRENT_EDGE", dirId |-> ROOT_DIR_INODE_ID, targetId |-> F1, name |-> name,
          wasMoved |-> FALSE, creationTime |-> creationTime],
         [kind |-> "LOCK_CURRENT_EDGE", dirId |-> ROOT_DIR_INODE_ID, targetId |-> F1, name |-> name,
          creationTime |-> creationTime],
         [kind |-> "REMOVE_NON_OWNED_EDGE", dirId |-> ROOT_DIR_INODE_ID, name |-> name,
          creationTime |-> creationTime],
         [kind |-> "SAME_SHARD_HARD_FILE_UNLINK", ownerId |-> ROOT_DIR_INODE_ID, targetId |-> F1,
          name |-> name, creationTime |-> creationTime, ub |-> "crash"],
         [kind |-> "REMOVE_OWNED_SNAPSHOT_FILE_EDGE", ownerId |-> ROOT_DIR_INODE_ID, targetId |-> F1,
          name |-> name, creationTime |-> creationTime]} :
            creationTime \in CreationTimes(db, ROOT_DIR_INODE_ID, name)} : name \in EdgeNames}

ReqEdge ==
    /\ RequestReady
    /\ \E req \in EdgeRequests : RequestPrepare(req, <<>>)

\* the requests on directories: the root, one more, and a file in the place
\* of a directory
DirectoryRequests ==
    {[kind |-> "CREATE_DIRECTORY_INODE", id |-> id, ownerId |-> ROOT_DIR_INODE_ID, info |-> "i1"] :
        id \in {D1, F1}}
    \cup {[kind |-> "REMOVE_DIRECTORY_OWNER", dirId |-> dirId, info |-> "i1"] :
            dirId \in {D1, ROOT_DIR_INODE_ID}}
    \cup {[kind |-> "SET_DIRECTORY_OWNER", dirId |-> D1, ownerId |-> ownerId] :
            ownerId \in {ROOT_DIR_INODE_ID, F1}}
    \cup {[kind |-> "SET_DIRECTORY_INFO", id |-> id, info |-> "i1"] : id \in {ROOT_DIR_INODE_ID, F1}}
    \cup {[kind |-> "REMOVE_INODE", id |-> id] : id \in {F1, D1, ROOT_DIR_INODE_ID, NULL_INODE_ID}}

ReqDirectory ==
    /\ RequestReady
    /\ \E req \in DirectoryRequests : RequestPrepare(req, <<>>)

\* the requests on the file and its spans; the requests on two files name a
\* second file that was never made, or the first one twice
FileRequests ==
    {[kind |-> "MAKE_FILE_TRANSIENT", id |-> F1, note |-> "m"],
     [kind |-> "SCRAP_TRANSIENT_FILE", id |-> F1, cookie |-> calcCookie(F1)],
     [kind |-> "REMOVE_SPAN_INITIATE", fileId |-> F1, cookie |-> calcCookie(F1)],
     [kind |-> "REMOVE_ZERO_BLOCK_SERVICE_FILES", startBlockService |-> 0,
      startFile |-> NULL_INODE_ID]}
    \cup {[kind |-> "SET_TIME", id |-> id, atime |-> [top |-> TRUE, low |-> 1],
           mtime |-> [top |-> FALSE, low |-> 1]] : id \in {F1, ROOT_DIR_INODE_ID}}
    \cup {[kind |-> "ADD_INLINE_SPAN", fileId |-> F1, cookie |-> cookie, storageClass |-> storageClass,
           byteOffset |-> 0, size |-> size, body |-> "x", crc |-> Crc("x", size)] :
            cookie \in {calcCookie(F1), calcCookie(NULL_INODE_ID)},
            storageClass \in {EMPTY_STORAGE, INLINE_STORAGE, FLASH_STORAGE}, size \in {0, 1}}
    \cup {[kind |-> "REMOVE_SPAN_CERTIFY", fileId |-> F1, cookie |-> calcCookie(F1),
           byteOffset |-> 0, proofs |-> proofs] : proofs \in {<<>>, ProofsAt(db, F1, 0, "E")}}
    \cup UNION {
        {[kind |-> "SWAP_BLOCKS", fileId1 |-> F1, byteOffset1 |-> 0, blockId1 |-> 0,
          fileId2 |-> fileId2, byteOffset2 |-> 0, blockId2 |-> 0],
         [kind |-> "SWAP_SPANS", fileId1 |-> F1, byteOffset1 |-> 0, blocks1 |-> <<>>,
          fileId2 |-> fileId2, byteOffset2 |-> 0, blocks2 |-> <<>>],
         [kind |-> "ADD_SPAN_LOCATION", fileId1 |-> F1, byteOffset1 |-> 0, blocks1 |-> <<>>,
          fileId2 |-> fileId2, byteOffset2 |-> 0],
         [kind |-> "MOVE_SPAN", fileId1 |-> F1, cookie1 |-> calcCookie(F1), byteOffset1 |-> 0,
          fileId2 |-> fileId2, cookie2 |-> calcCookie(fileId2), byteOffset2 |-> 0,
          spanSize |-> TERNFS_PAGE_SIZE]} : fileId2 \in {F1, InodeId(FILE, SHID, 2)}}

ReqFile ==
    /\ RequestReady
    /\ \E req \in FileRequests : RequestPrepare(req, <<>>)

\* a read request handed to prepareLogEntry
ReqBadKind ==
    /\ RequestReady
    /\ RequestPrepare([kind |-> "STAT_DIRECTORY", id |-> ROOT_DIR_INODE_ID], <<>>)

\* a read on a snapshot taken when the last entry had been applied
ReqRead ==
    /\ ~aborted
    /\ last = NoEntry
    /\ \E req \in {[kind |-> "STAT_DIRECTORY", id |-> ROOT_DIR_INODE_ID],
                   [kind |-> "STAT_DIRECTORY", id |-> D1]}
                  \cup {[kind |-> "LOOKUP", dirId |-> ROOT_DIR_INODE_ID, name |-> name] :
                            name \in RequestNames} :
       \E r \in {read(GetSnapshot(db), db, req)} :
            /\ last' = [kind |-> req.kind, req |-> req, prepareErr |-> "NO_ERROR",
                        err |-> r.resp.err, resp |-> ShardResp(readRespKind(req), r.resp.err)]
            /\ UNCHANGED <<db, aborted, readVars, db2>>

NextRequests ==
    \/ RespClear
    \/ RequestApply
    \/ ReqConstructFile
    \/ ReqLinkFile
    \/ ReqSameDirectoryRename
    \/ ReqCreateLockedCurrentEdge
    \/ ReqAddSpanInitiate
    \/ ReqAddSpanCertify
    \/ ReqEdge
    \/ ReqDirectory
    \/ ReqFile
    \/ ReqBadKind
    \/ ReqRead

SpecRequests == Init /\ [][NextRequests]_vars

\* ------------------------------------------------------------ id allocation
\* Files and symbolic links are constructed and blocked spans are added at
\* log times on both sides of a multiple of 256, in any order, with a deadline
\* interval that some of the entries outlast.
MaxIdLog == 5
MaxIdFiles == 3
IdDeadlineInterval == 500
IdOptions == [transientDeadlineInterval |-> IdDeadlineInterval]
IdTimes == {1, 300, 700}

IdReady == ~aborted /\ last = NoEntry /\ db.lastApplied < MaxIdLog

IdStep(entry) ==
    \E r \in {applyLogEntry(IdOptions, db, db.lastApplied + 1, entry)} :
       IF r.err = "CRASH"
       THEN /\ aborted' = TRUE
            /\ last' = SpanApplied(entry, r, db.lastApplied + 1)
            /\ UNCHANGED <<db, readVars, db2>>
       ELSE /\ db' = r.db
            /\ last' = SpanApplied(entry, r, db.lastApplied + 1)
            /\ UNCHANGED <<aborted, readVars, db2>>

IdConstructFile ==
    /\ IdReady
    /\ Cardinality(DOMAIN db.transient) < MaxIdFiles
    /\ \E type \in {FILE, SYMLINK, DIRECTORY}, time \in IdTimes :
        IdStep(Entry("CONSTRUCT_FILE", time,
                     [type |-> type, note |-> "n", deadlineTime |-> time + IdDeadlineInterval]))

IdAddSpanInitiate ==
    /\ IdReady
    /\ \E fileId \in DOMAIN db.transient, byteOffset \in SpanOffsets, blocks \in 1..2,
          time \in IdTimes :
        IdStep(Entry("ADD_SPAN_AT_LOCATION_INITIATE", time,
            [fileId |-> fileId, byteOffset |-> byteOffset, size |-> TERNFS_PAGE_SIZE, crc |-> "c",
             storageClass |-> FLASH_STORAGE, parity |-> <<1, blocks - 1>>, stripes |-> 1,
             cellSize |-> TERNFS_PAGE_SIZE, locationId |-> DEFAULT_LOCATION,
             bodyBlocks |-> [i \in 1..blocks |-> [blockServiceId |-> 2 * i - 1, crc |-> "c"]]]))

IdAddSpanCertify ==
    /\ IdReady
    /\ \E fileId \in DOMAIN db.transient, time \in IdTimes :
        IdStep(Entry("ADD_SPAN_CERTIFY", time,
                     [fileId |-> fileId, byteOffset |-> 0, proofs |-> ProofsAt(db, fileId, 0, "W")]))

NextIds ==
    \/ RespClear
    \/ IdConstructFile
    \/ IdAddSpanInitiate
    \/ IdAddSpanCertify

SpecIds == Init /\ [][NextIds]_vars

\* ------------------------------------------------------------------ Bincode
\* A BincodeBuf is its bytes `data` (data[1] is *data, Len(data) is end - data)
\* and its cursor (cursor - data).  Values are packed into a buffer of one of
\* BufLens bytes; a second buffer over the bytes written, or over all but the
\* last of them, then unpacks them in order.
BufLens == {3, 12, 310}
MaxItems == 2
\* the longest BincodeBytes (copy asserts length < 256), and a list counted by
\* two bytes
MaxBytesLen == 255
LongListLen == 300

remaining(b) == Len(b.data) - b.cursor

\* the bytes of an integer of sizeof(A) = w in a little endian machine
RECURSIVE ScalarBytes(_, _)
ScalarBytes(w, x) == IF w = 0 THEN <<>> ELSE <<x % 256>> \o ScalarBytes(w - 1, x \div 256)

\* the integer whose bytes these are: signed types are two's complement
RECURSIVE ScalarOf(_, _)
ScalarOf(bytes, signed) ==
    IF Len(bytes) = 1
    THEN IF signed /\ bytes[1] >= 128 THEN bytes[1] - 256 ELSE bytes[1]
    ELSE bytes[1] + 256 * ScalarOf(Tail(bytes), signed)

\* memcpy(cursor, src, Len(src)); cursor += Len(src)
memcpyAtCursor(b, src) ==
    [b EXCEPT !.data = [i \in 1..Len(@) |->
                            IF i > b.cursor /\ i <= b.cursor + Len(src) THEN src[i - b.cursor] ELSE @[i]],
              !.cursor = @ + Len(src)]

Packed(b) == [err |-> "NO_ERROR", buf |-> b]
PackPanic(b) == [err |-> "CRASH", buf |-> b]

packScalar(b, w, x) ==
    IF remaining(b) < w THEN PackPanic(b) ELSE Packed(memcpyAtCursor(b, ScalarBytes(w, x)))

\* BincodeBytes::copy, data and size: what a BincodeBytes made of `bytes`
\* holds, in the pointer itself below 8 bytes and in the heap from 8 on
BincodeBytes(bytes) ==
    IF Len(bytes) >= 256 THEN [err |-> "CRASH", size |-> 0, data |-> <<>>, inPointer |-> FALSE]
    ELSE [err |-> "NO_ERROR", size |-> Len(bytes), data |-> bytes, inPointer |-> Len(bytes) < 8]

packBytes(b, x) ==
    IF remaining(b) < 1 + x.size THEN PackPanic(b)
    ELSE Packed(memcpyAtCursor(packScalar(b, 1, x.size).buf, x.data))

\* the elements of a list of integers, one after the other
ListBytes(w, els) ==
    [k \in 1..(w * Len(els)) |-> ScalarBytes(w, els[((k - 1) \div w) + 1])[((k - 1) % w) + 1]]

\* packList of a list of integers of sizeof(A) = w
packList(b, w, els) ==
    IF Len(els) >= 65536 THEN PackPanic(b)
    ELSE IF packScalar(b, 2, Len(els)).err # "NO_ERROR" THEN PackPanic(b)
    ELSE IF Len(els) = 0 THEN packScalar(b, 2, Len(els))
    ELSE IF remaining(packScalar(b, 2, Len(els)).buf) < w * Len(els)
         THEN PackPanic(packScalar(b, 2, Len(els)).buf)
    ELSE Packed(memcpyAtCursor(packScalar(b, 2, Len(els)).buf, ListBytes(w, els)))

Unpacked(b, value) == [err |-> "NO_ERROR", buf |-> b, value |-> value]
UnpackThrows(b) == [err |-> "BINCODE_EXCEPTION", buf |-> b, value |-> 0]

\* variant: every integer is read as unsigned
unpackScalar_Unsigned(b, w, signed) ==
    IF remaining(b) < w THEN UnpackThrows(b)
    ELSE Unpacked([b EXCEPT !.cursor = @ + w],
                  ScalarOf(SubSeq(b.data, b.cursor + 1, b.cursor + w), FALSE))

unpackScalar(b, w, signed) ==
    IF remaining(b) < w THEN UnpackThrows(b)
    ELSE Unpacked([b EXCEPT !.cursor = @ + w],
                  ScalarOf(SubSeq(b.data, b.cursor + 1, b.cursor + w), signed))

unpackBytes(b) ==
    LET AfterLen(l) ==
            IF l.err # "NO_ERROR" THEN UnpackThrows(b)
            ELSE IF remaining(l.buf) < l.value THEN UnpackThrows(l.buf)
            ELSE Unpacked([l.buf EXCEPT !.cursor = @ + l.value],
                          BincodeBytes(SubSeq(l.buf.data, l.buf.cursor + 1, l.buf.cursor + l.value)))
    IN  AfterLen(unpackScalar(b, 1, FALSE))

\* unpackList of a list of integers of sizeof(A) = w
unpackList(b, w, signed) ==
    LET AfterLen(l) ==
            IF l.err # "NO_ERROR" THEN UnpackThrows(b)
            ELSE IF l.value = 0 THEN Unpacked(l.buf, <<>>)
            ELSE IF remaining(l.buf) < w * l.value THEN UnpackThrows(l.buf)
            ELSE Unpacked([l.buf EXCEPT !.cursor = @ + w * l.value],
                          [i \in 1..l.value |->
                              ScalarOf(SubSeq(l.buf.data, l.buf.cursor + (i - 1) * w + 1,
                                              l.buf.cursor + i * w), signed)])
    IN  AfterLen(unpackScalar(b, 2, FALSE))

\* sizeof(A), BincodeBytes::packedSize, BincodeList::packedSize
packedSize(item) ==
    CASE item.type = "SCALAR" -> item.w
      [] item.type = "BYTES" -> 1 + item.value.size
      [] item.type = "LIST" -> 2 + Len(item.value) * item.w

pack(b, item) ==
    CASE item.type = "SCALAR" -> packScalar(b, item.w, item.value)
      [] item.type = "BYTES" -> packBytes(b, item.value)
      [] item.type = "LIST" -> packList(b, item.w, item.value)

unpack(b, item) ==
    CASE item.type = "SCALAR" -> unpackScalar(b, item.w, item.signed)
      [] item.type = "BYTES" -> unpackBytes(b)
      [] item.type = "LIST" -> unpackList(b, item.w, item.signed)

Scalar(w, signed, value) == [type |-> "SCALAR", w |-> w, signed |-> signed, value |-> value]
ListOf(w, signed, els) == [type |-> "LIST", w |-> w, signed |-> signed, value |-> els]

\* uint8_t, int8_t, uint16_t, int16_t, int32_t and uint64_t values
Scalars ==
    {Scalar(1, FALSE, 0), Scalar(1, FALSE, 255), Scalar(1, TRUE, -128),
     Scalar(2, FALSE, 258), Scalar(2, FALSE, 65535), Scalar(2, TRUE, -2),
     Scalar(4, TRUE, -1), Scalar(4, TRUE, 16909060), Scalar(8, FALSE, 2147483647)}

\* byte strings: empty, with a NUL inside, of 7 and 8 bytes, and the longest
ByteStrings ==
    {[type |-> "BYTES", value |-> BincodeBytes(bytes)] :
        bytes \in {<<>>, <<97, 0, 98>>, [i \in 1..7 |-> 255], [i \in 1..8 |-> i],
                   [i \in 1..MaxBytesLen |-> i % 256]}}

Lists ==
    {ListOf(1, FALSE, <<>>), ListOf(1, FALSE, <<0, 255>>), ListOf(2, FALSE, <<258, 65535>>),
     ListOf(2, TRUE, <<-1, 1, -32768>>), ListOf(1, FALSE, [i \in 1..LongListLen |-> i % 256])}

BufReady == ~aborted /\ last = NoEntry

\* BincodeBuf(buf, len) over a zeroed buffer
BufConstruct ==
    /\ BufReady
    /\ buf.pc = "none"
    /\ \E len \in BufLens :
        buf' = [pc |-> "packing", data |-> [i \in 1..len |-> 0], cursor |-> 0,
                items |-> <<>>, next |-> 1]
    /\ UNCHANGED <<db, aborted, last, currentReadSnapshot, flusher, reader, history, db2, pending>>

BufPack ==
    /\ BufReady
    /\ buf.pc = "packing"
    /\ Len(buf.items) < MaxItems
    /\ \E item \in Scalars \cup ByteStrings \cup Lists :
       \E r \in {pack(buf, item)} :
         IF r.err = "CRASH"
         THEN /\ aborted' = TRUE
              /\ buf' = r.buf
              /\ last' = [kind |-> "PACK", err |-> r.err, item |-> item, at |-> buf.cursor]
              /\ UNCHANGED <<db, currentReadSnapshot, flusher, reader, history, db2, pending>>
         ELSE /\ buf' = [r.buf EXCEPT !.items = Append(@, item)]
              /\ last' = [kind |-> "PACK", err |-> r.err, item |-> item, at |-> buf.cursor]
              /\ UNCHANGED <<db, aborted, currentReadSnapshot, flusher, reader, history, db2, pending>>

\* a second BincodeBuf over the bytes written, or over all but the last
BufRead ==
    /\ BufReady
    /\ buf.pc = "packing"
    /\ buf.items # <<>>
    /\ \E len \in {buf.cursor, buf.cursor - 1} :
        buf' = [buf EXCEPT !.pc = "unpacking", !.data = SubSeq(@, 1, len), !.cursor = 0]
    /\ UNCHANGED <<db, aborted, last, currentReadSnapshot, flusher, reader, history, db2, pending>>

BufUnpack ==
    /\ BufReady
    /\ buf.pc = "unpacking"
    /\ buf.next <= Len(buf.items)
    /\ \E r \in {unpack(buf, buf.items[buf.next])} :
        /\ buf' = [r.buf EXCEPT !.next = IF r.err = "NO_ERROR" THEN @ + 1 ELSE Len(buf.items) + 1]
        /\ last' = [kind |-> "UNPACK", err |-> r.err, item |-> buf.items[buf.next],
                    value |-> r.value, at |-> buf.cursor]
    /\ UNCHANGED <<db, aborted, currentReadSnapshot, flusher, reader, history, db2, pending>>

NextBincode ==
    \/ RespClear
    \/ BufConstruct
    \/ BufPack
    \/ BufRead
    \/ BufUnpack

SpecBincode == Init /\ [][NextBincode]_vars

\* --------------------------------------------------------- directory owners
\* One directory is created, loses its owner, gets another and is created
\* again, at any time, by the entries _prepareCreateDirectoryInode lets through:
\* the id and the owner are directories.
MaxOwnerLog == 4
D2 == InodeId(DIRECTORY, SHID, 2)
OwnerTimes == 1..MaxOwnerLog
OwnerReady == ~aborted /\ last = NoEntry /\ db.lastApplied < MaxOwnerLog

OwnerCreateDirectoryInode ==
    /\ OwnerReady
    /\ \E id \in {D1, ROOT_DIR_INODE_ID}, ownerId \in {ROOT_DIR_INODE_ID, D2},
          info \in {"i1", "i2"}, t \in OwnerTimes :
        EntryStep(Entry("CREATE_DIRECTORY_INODE", t, [id |-> id, ownerId |-> ownerId, info |-> info]))

OwnerRemoveDirectoryOwner ==
    /\ OwnerReady
    /\ \E t \in OwnerTimes :
        EntryStep(Entry("REMOVE_DIRECTORY_OWNER", t, [dirId |-> D1, info |-> "i1"]))

OwnerSetDirectoryOwner ==
    /\ OwnerReady
    /\ \E ownerId \in {ROOT_DIR_INODE_ID, D2}, t \in OwnerTimes :
        EntryStep(Entry("SET_DIRECTORY_OWNER", t, [dirId |-> D1, ownerId |-> ownerId]))

NextOwners ==
    \/ RespClear
    \/ OwnerCreateDirectoryInode
    \/ OwnerRemoveDirectoryOwner
    \/ OwnerSetDirectoryOwner

SpecOwners == Init /\ [][NextOwners]_vars

\* ----------------------------------------------------------------- deadlines
\* Two transient files whose spans are added, certified, moved and removed,
\* and which are scrapped with a deadline of the entry.
MaxDeadlineLog == 6

ScrapTransientFileOf(files) ==
    \E fileId \in files, deadlineTime \in {0, Clock(db) + 1} :
        SpanStep("SCRAP_TRANSIENT_FILE", [id |-> fileId, deadlineTime |-> deadlineTime])

DeadlineConstructFile == SpanReady(MaxDeadlineLog) /\ ConstructFileOf(MaxSpanFiles)
DeadlineAddInlineSpan == SpanReady(MaxDeadlineLog) /\ AddInlineSpanOf(SpanFileIds)
DeadlineAddSpanInitiate ==
    SpanReady(MaxDeadlineLog) /\ AddSpanInitiateOf(SpanFileIds, 1, {Placement(0, {1})})
DeadlineAddSpanCertify == SpanReady(MaxDeadlineLog) /\ AddSpanCertifyOf(SpanFileIds)
DeadlineRemoveSpanInitiate == SpanReady(MaxDeadlineLog) /\ RemoveSpanInitiateOf(SpanFileIds)
DeadlineRemoveSpanCertify == SpanReady(MaxDeadlineLog) /\ RemoveSpanCertifyOf(SpanFileIds)
DeadlineMoveSpan == SpanReady(MaxDeadlineLog) /\ MoveSpanOf(SpanFileIds)
DeadlineScrapTransientFile == SpanReady(MaxDeadlineLog) /\ ScrapTransientFileOf(SpanFileIds)

NextDeadlines ==
    \/ RespClear
    \/ DeadlineConstructFile
    \/ DeadlineAddInlineSpan
    \/ DeadlineAddSpanInitiate
    \/ DeadlineAddSpanCertify
    \/ DeadlineRemoveSpanInitiate
    \/ DeadlineRemoveSpanCertify
    \/ DeadlineMoveSpan
    \/ DeadlineScrapTransientFile

SpecDeadlines == Init /\ [][NextDeadlines]_vars

\* ------------------------------------------------ edges of one directory
\* The edge operations on the root directory, every entry kept whole in `last`.
MaxEdgeLog == 5
MaxEdgeFiles == 2
F2 == InodeId(FILE, SHID, 2)
EdgeFileIds == {F1, F2}
EdgeTargetIds == {F1, F2, D2}
\* the log entry time is the leader's clock: the latest stored time or later
EdgeTimes == {ClockAll(db), ClockAll(db) + 1}

EdgeReady == ~aborted /\ last = NoEntry /\ db.lastApplied < MaxEdgeLog

EdgeConstructFile ==
    /\ EdgeReady
    /\ db.nextFileId < InodeId(FILE, SHID, MaxEdgeFiles)
    /\ \E t \in EdgeTimes :
        EntryStep(Entry("CONSTRUCT_FILE", t,
                        [type |-> FILE, note |-> "n", deadlineTime |-> t + SpanDeadlineInterval]))

EdgeLinkFile ==
    /\ EdgeReady
    /\ \E fileId \in EdgeFileIds, name \in Names, t \in EdgeTimes :
        EntryStep(Entry("LINK_FILE", t,
                        [fileId |-> fileId, ownerId |-> ROOT_DIR_INODE_ID, name |-> name]))

EdgeCreateLockedCurrentEdge ==
    /\ EdgeReady
    /\ \E name \in Names, targetId \in EdgeTargetIds, t \in EdgeTimes :
      \E oldCreationTime \in CreationTimes(db, ROOT_DIR_INODE_ID, name) :
        EntryStep(Entry("CREATE_LOCKED_CURRENT_EDGE", t,
                        [dirId |-> ROOT_DIR_INODE_ID, name |-> name, targetId |-> targetId,
                         oldCreationTime |-> oldCreationTime]))

EdgeUnlockCurrentEdge ==
    /\ EdgeReady
    /\ \E name \in Names, targetId \in EdgeTargetIds, wasMoved \in BOOLEAN, t \in EdgeTimes :
      \E creationTime \in CreationTimes(db, ROOT_DIR_INODE_ID, name) :
        EntryStep(Entry("UNLOCK_CURRENT_EDGE", t,
                        [dirId |-> ROOT_DIR_INODE_ID, name |-> name, targetId |-> targetId,
                         creationTime |-> creationTime, wasMoved |-> wasMoved]))

EdgeLockCurrentEdge ==
    /\ EdgeReady
    /\ \E name \in Names, targetId \in EdgeTargetIds, t \in EdgeTimes :
      \E creationTime \in CreationTimes(db, ROOT_DIR_INODE_ID, name) :
        EntryStep(Entry("LOCK_CURRENT_EDGE", t,
                        [dirId |-> ROOT_DIR_INODE_ID, name |-> name, targetId |-> targetId,
                         creationTime |-> creationTime]))

\* _prepareSameDirectoryRename<true> refuses equal names
EdgeSameDirectoryRename ==
    /\ EdgeReady
    /\ \E targetId \in EdgeTargetIds, oldName \in Names, newName \in Names, t \in EdgeTimes :
      \E oldCreationTime \in CreationTimes(db, ROOT_DIR_INODE_ID, oldName) :
        /\ oldName # newName
        /\ EntryStep(Entry("SAME_DIRECTORY_RENAME", t,
                           [dirId |-> ROOT_DIR_INODE_ID, targetId |-> targetId, oldName |-> oldName,
                            newName |-> newName, oldCreationTime |-> oldCreationTime]))

EdgeSameDirectoryRenameSnapshot ==
    /\ EdgeReady
    /\ \E targetId \in EdgeTargetIds, oldName \in Names, newName \in Names, t \in EdgeTimes :
      \E oldCreationTime \in CreationTimes(db, ROOT_DIR_INODE_ID, oldName) :
        EntryStep(Entry("SAME_DIRECTORY_RENAME_SNAPSHOT", t,
                        [dirId |-> ROOT_DIR_INODE_ID, targetId |-> targetId, oldName |-> oldName,
                         newName |-> newName, oldCreationTime |-> oldCreationTime]))

\* _prepareSoftUnlinkFile refuses a directory as the file
EdgeSoftUnlinkFile ==
    /\ EdgeReady
    /\ \E fileId \in EdgeFileIds, name \in Names, t \in EdgeTimes :
      \E creationTime \in CreationTimes(db, ROOT_DIR_INODE_ID, name) :
        EntryStep(Entry("SOFT_UNLINK_FILE", t,
                        [ownerId |-> ROOT_DIR_INODE_ID, fileId |-> fileId, name |-> name,
                         creationTime |-> creationTime]))

NextEdges ==
    \/ EdgeConstructFile
    \/ EdgeLinkFile
    \/ EdgeCreateLockedCurrentEdge
    \/ EdgeUnlockCurrentEdge
    \/ EdgeLockCurrentEdge
    \/ EdgeSameDirectoryRename
    \/ EdgeSameDirectoryRenameSnapshot
    \/ EdgeSoftUnlinkFile
    \/ RespClear

SpecEdges == Init /\ [][NextEdges]_vars

\* ------------------------------------- edges of a directory created again
\* Directory D1 is created, loses its owner and is created again, with edges
\* of one name made and moved away in between; the times are free.
MaxSnapshotLog == 6
SnapshotLogTimes == 1..4

SnapshotReady == ~aborted /\ last = NoEntry /\ db.lastApplied < MaxSnapshotLog

SnapshotCreateDirectoryInode ==
    /\ SnapshotReady
    /\ \E t \in SnapshotLogTimes :
        EntryStep(Entry("CREATE_DIRECTORY_INODE", t,
                        [id |-> D1, ownerId |-> ROOT_DIR_INODE_ID, info |-> "i1"]))

SnapshotRemoveDirectoryOwner ==
    /\ SnapshotReady
    /\ \E t \in SnapshotLogTimes :
        EntryStep(Entry("REMOVE_DIRECTORY_OWNER", t, [dirId |-> D1, info |-> "i1"]))

SnapshotCreateLockedCurrentEdge ==
    /\ SnapshotReady
    /\ \E t \in SnapshotLogTimes, oldCreationTime \in CreationTimes(db, D1, "a") :
        EntryStep(Entry("CREATE_LOCKED_CURRENT_EDGE", t,
                        [dirId |-> D1, name |-> "a", targetId |-> F1,
                         oldCreationTime |-> oldCreationTime]))

SnapshotUnlockCurrentEdge ==
    /\ SnapshotReady
    /\ \E wasMoved \in BOOLEAN, t \in SnapshotLogTimes, creationTime \in CreationTimes(db, D1, "a") :
        EntryStep(Entry("UNLOCK_CURRENT_EDGE", t,
                        [dirId |-> D1, name |-> "a", targetId |-> F1,
                         creationTime |-> creationTime, wasMoved |-> wasMoved]))

SnapshotSoftUnlinkFile ==
    /\ SnapshotReady
    /\ \E t \in SnapshotLogTimes, creationTime \in CreationTimes(db, D1, "a") :
        EntryStep(Entry("SOFT_UNLINK_FILE", t,
                        [ownerId |-> D1, fileId |-> F1, name |-> "a", creationTime |-> creationTime]))

NextSnapshots ==
    \/ SnapshotCreateDirectoryInode
    \/ SnapshotRemoveDirectoryOwner
    \/ SnapshotCreateLockedCurrentEdge
    \/ SnapshotUnlockCurrentEdge
    \/ SnapshotSoftUnlinkFile
    \/ RespClear

SpecSnapshots == Init /\ [][NextSnapshots]_vars

\* ------------------------------------------------------- linking of files
\* Files are constructed, given spans, linked under one name of the root
\* directory and made transient again; the times are free, and the last of
\* them is past every deadline.
MaxLinkLog == 4
MaxLinkFiles == 2
LinkTimes == {1, 2, 3, 3 + SpanDeadlineInterval + 1}
LinkFileIds == {F1, F2}

LinkReady == ~aborted /\ last = NoEntry /\ db.lastApplied < MaxLinkLog

LinkConstructFile ==
    /\ LinkReady
    /\ db.nextFileId < InodeId(FILE, SHID, MaxLinkFiles)
    /\ \E t \in LinkTimes :
        EntryStep(Entry("CONSTRUCT_FILE", t,
                        [type |-> FILE, note |-> "n", deadlineTime |-> t + SpanDeadlineInterval]))

LinkAddInlineSpan ==
    /\ LinkReady
    /\ \E fileId \in LinkFileIds, t \in LinkTimes :
        EntryStep(Entry("ADD_INLINE_SPAN", t,
                        [fileId |-> fileId, byteOffset |-> 0, size |-> TERNFS_PAGE_SIZE,
                         body |-> "x", crc |-> Crc("x", TERNFS_PAGE_SIZE)]))

LinkAddSpanInitiate ==
    /\ LinkReady
    /\ \E fileId \in LinkFileIds, t \in LinkTimes :
        EntryStep(Entry("ADD_SPAN_AT_LOCATION_INITIATE", t,
                        [fileId |-> fileId, byteOffset |-> 0, size |-> TERNFS_PAGE_SIZE, crc |-> "c",
                         storageClass |-> FLASH_STORAGE, parity |-> <<1, 0>>, stripes |-> 1,
                         cellSize |-> TERNFS_PAGE_SIZE, locationId |-> DEFAULT_LOCATION,
                         bodyBlocks |-> [i \in 1..1 |-> [blockServiceId |-> 1, crc |-> "c"]]]))

LinkLinkFile ==
    /\ LinkReady
    /\ \E fileId \in LinkFileIds, t \in LinkTimes :
        EntryStep(Entry("LINK_FILE", t,
                        [fileId |-> fileId, ownerId |-> ROOT_DIR_INODE_ID, name |-> "a"]))

LinkCreateLockedCurrentEdge ==
    /\ LinkReady
    /\ \E targetId \in LinkFileIds, t \in LinkTimes :
      \E oldCreationTime \in CreationTimes(db, ROOT_DIR_INODE_ID, "a") :
        EntryStep(Entry("CREATE_LOCKED_CURRENT_EDGE", t,
                        [dirId |-> ROOT_DIR_INODE_ID, name |-> "a", targetId |-> targetId,
                         oldCreationTime |-> oldCreationTime]))

\* _prepareMakeFileTransient sets the deadline to the log time
LinkMakeFileTransient ==
    /\ LinkReady
    /\ \E id \in LinkFileIds, t \in LinkTimes :
        EntryStep(Entry("MAKE_FILE_TRANSIENT", t, [id |-> id, note |-> "m", deadlineTime |-> t]))

NextLinks ==
    \/ LinkConstructFile
    \/ LinkAddInlineSpan
    \/ LinkAddSpanInitiate
    \/ LinkLinkFile
    \/ LinkCreateLockedCurrentEdge
    \/ LinkMakeFileTransient
    \/ RespClear

SpecLinks == Init /\ [][NextLinks]_vars

\* ------------------------------------------------------ swaps of blocks
\* Two files with one span of two blocks each, on block services picked as
\* _prepareAddSpanInitiate picks them; block services 1 and 2 share a failure
\* domain, and so do 3 and 4.
MaxSwapLog == 6
SwapBlockServices == {1, 2, 3, 4}

\* the block services of a prepared span: the candidates are the current
\* block services less every one that matches the blacklist, which each
\* candidate extends by its own id and failure domain, and each pick leaves
\* the candidates
PickedBlockServices(blocks, services) ==
    {picked \in [1..blocks -> services] :
        \A i, j \in 1..blocks :
            i # j => /\ picked[i] # picked[j]
                     /\ FailureDomain(picked[i]) # FailureDomain(picked[j])}

SwapConstructFile == SpanReady(MaxSwapLog) /\ ConstructFileOf(MaxSpanFiles)

SwapAddSpanInitiate ==
    /\ SpanReady(MaxSwapLog)
    /\ \E fileId \in SpanFileIds, picked \in PickedBlockServices(2, SwapBlockServices) :
        SpanStep("ADD_SPAN_AT_LOCATION_INITIATE",
            [fileId |-> fileId, byteOffset |-> 0, size |-> TERNFS_PAGE_SIZE, crc |-> "c",
             storageClass |-> FLASH_STORAGE, parity |-> <<1, 1>>, stripes |-> 1,
             cellSize |-> TERNFS_PAGE_SIZE, locationId |-> DEFAULT_LOCATION,
             bodyBlocks |-> [i \in 1..2 |-> [blockServiceId |-> picked[i], crc |-> "c"]]])

SwapAddSpanCertify == SpanReady(MaxSwapLog) /\ AddSpanCertifyOf(SpanFileIds)

SwapSwapBlocks ==
    /\ SpanReady(MaxSwapLog)
    /\ \E fileId1 \in SpanFileIds :
       \E fileId2 \in SpanFileIds \ {fileId1} :
       \E blockId1 \in {BlockIdsAt(db, fileId1, 0)[i] : i \in DOMAIN BlockIdsAt(db, fileId1, 0)},
          blockId2 \in {BlockIdsAt(db, fileId2, 0)[i] : i \in DOMAIN BlockIdsAt(db, fileId2, 0)} :
        SpanStep("SWAP_BLOCKS",
            [fileId1 |-> fileId1, byteOffset1 |-> 0, blockId1 |-> blockId1,
             fileId2 |-> fileId2, byteOffset2 |-> 0, blockId2 |-> blockId2])

NextSwaps ==
    \/ SwapConstructFile
    \/ SwapAddSpanInitiate
    \/ SwapAddSpanCertify
    \/ SwapSwapBlocks
    \/ RespClear

SpecSwaps == Init /\ [][NextSwaps]_vars

\* ------------------------------------------------ reclaiming of files
\* Files are made, given blocked spans, linked, and taken apart again: spans
\* are condemned and removed, inodes are removed.  An entry is stamped just
\* after the latest mtime or past every deadline given so far.
MaxReclaimLog == 7
MaxReclaimFiles == 2
ReclaimFileIds == {InodeId(FILE, SHID, n) : n \in 1..MaxReclaimFiles}
ReclaimTimes == {Clock(db) + 1, Clock(db) + 1 + SpanDeadlineInterval}

ReclaimReady == SpanReady(MaxReclaimLog)

ReclaimConstructFile ==
    /\ ReclaimReady
    /\ db.nextFileId < InodeId(FILE, SHID, MaxReclaimFiles)
    /\ \E t \in ReclaimTimes :
        EntryStep(Entry("CONSTRUCT_FILE", t,
                        [type |-> FILE, note |-> "n", deadlineTime |-> t + SpanDeadlineInterval]))

ReclaimAddSpanInitiate ==
    /\ ReclaimReady
    /\ \E fileId \in ReclaimFileIds, byteOffset \in SpanOffsets, t \in ReclaimTimes :
        EntryStep(Entry("ADD_SPAN_AT_LOCATION_INITIATE", t,
                        [fileId |-> fileId, byteOffset |-> byteOffset, size |-> TERNFS_PAGE_SIZE,
                         crc |-> "c", storageClass |-> FLASH_STORAGE, parity |-> <<1, 0>>,
                         stripes |-> 1, cellSize |-> TERNFS_PAGE_SIZE, locationId |-> DEFAULT_LOCATION,
                         bodyBlocks |-> [i \in 1..1 |-> [blockServiceId |-> 1, crc |-> "c"]]]))

ReclaimAddSpanCertify ==
    /\ ReclaimReady
    /\ \E fileId \in ReclaimFileIds, byteOffset \in SpanOffsets, t \in ReclaimTimes :
        EntryStep(Entry("ADD_SPAN_CERTIFY", t,
                        [fileId |-> fileId, byteOffset |-> byteOffset,
                         proofs |-> ProofsAt(db, fileId, byteOffset, "W")]))

ReclaimLinkFile ==
    /\ ReclaimReady
    /\ \E fileId \in ReclaimFileIds, t \in ReclaimTimes :
        EntryStep(Entry("LINK_FILE", t,
                        [fileId |-> fileId, ownerId |-> ROOT_DIR_INODE_ID, name |-> "a"]))

ReclaimRemoveSpanInitiate ==
    /\ ReclaimReady
    /\ \E fileId \in ReclaimFileIds, t \in ReclaimTimes :
        EntryStep(Entry("REMOVE_SPAN_INITIATE", t, [fileId |-> fileId]))

ReclaimRemoveSpanCertify ==
    /\ ReclaimReady
    /\ \E fileId \in ReclaimFileIds, byteOffset \in SpanOffsets, t \in ReclaimTimes :
        EntryStep(Entry("REMOVE_SPAN_CERTIFY", t,
                        [fileId |-> fileId, byteOffset |-> byteOffset,
                         proofs |-> ProofsAt(db, fileId, byteOffset, "E")]))

\* _prepareRemoveInode lets every id of the shard through but the root's
ReclaimRemoveInode ==
    /\ ReclaimReady
    /\ \E id \in ReclaimFileIds \cup {NULL_INODE_ID}, t \in ReclaimTimes :
        EntryStep(Entry("REMOVE_INODE", t, [id |-> id]))

NextReclaim ==
    \/ RespClear
    \/ ReclaimConstructFile
    \/ ReclaimAddSpanInitiate
    \/ ReclaimAddSpanCertify
    \/ ReclaimLinkFile
    \/ ReclaimRemoveSpanInitiate
    \/ ReclaimRemoveSpanCertify
    \/ ReclaimRemoveInode

SpecReclaim == Init /\ [][NextReclaim]_vars

\* ------------------------------------------- picking of block services
\* BlockServiceInfoShort, an element of currentBlockServices of the cache
BlockServiceInfoShort(id, locationId, storageClass) ==
    [id |-> id, locationId |-> locationId, storageClass |-> storageClass,
     failureDomain |-> FailureDomain(id)]

BlacklistEntry(failureDomain, blockService) ==
    [failureDomain |-> failureDomain, blockService |-> blockService]

blockServiceMatchesBlacklist(blacklists, failureDomain, blockServiceId) ==
    \E i \in 1..Len(blacklists) :
        blacklists[i].blockService = blockServiceId \/ blacklists[i].failureDomain = failureDomain

\* variant: a candidate does not extend the blacklist
RECURSIVE candidateBlockServices_NoBlacklisting(_, _, _, _)
candidateBlockServices_NoBlacklisting(currentBlockServices, locationId, storageClass, blacklist) ==
    IF currentBlockServices = <<>> THEN <<>>
    ELSE IF \/ Head(currentBlockServices).locationId # locationId
            \/ Head(currentBlockServices).storageClass # storageClass
            \/ blockServiceMatchesBlacklist(blacklist, Head(currentBlockServices).failureDomain,
                                            Head(currentBlockServices).id)
    THEN candidateBlockServices_NoBlacklisting(Tail(currentBlockServices), locationId, storageClass, blacklist)
    ELSE <<Head(currentBlockServices).id>> \o
         candidateBlockServices_NoBlacklisting(Tail(currentBlockServices), locationId, storageClass, blacklist)

\* the loop over currentBlockServices: a block service of another location or
\* storage class, or one that matches the blacklist, is skipped; a candidate
\* puts its failure domain and its id on the blacklist
RECURSIVE candidateBlockServices(_, _, _, _)
candidateBlockServices(currentBlockServices, locationId, storageClass, blacklist) ==
    IF currentBlockServices = <<>> THEN <<>>
    ELSE IF \/ Head(currentBlockServices).locationId # locationId
            \/ Head(currentBlockServices).storageClass # storageClass
            \/ blockServiceMatchesBlacklist(blacklist, Head(currentBlockServices).failureDomain,
                                            Head(currentBlockServices).id)
    THEN candidateBlockServices(Tail(currentBlockServices), locationId, storageClass, blacklist)
    ELSE <<Head(currentBlockServices).id>> \o
         candidateBlockServices(Tail(currentBlockServices), locationId, storageClass,
                                Append(blacklist, BlacklistEntry(Head(currentBlockServices).failureDomain,
                                                                 Head(currentBlockServices).id)))

\* the offset of the key sought: 0 for the first span, ~(uint64_t)0, which
\* no span comes after, for the last
SoughtOffset(d, first) ==
    IF first THEN 0 ELSE SetMax({0} \cup {k[2] : k \in DOMAIN d.spans})

\* the loop over the blocks of the span found: a block service that is a
\* candidate is picked and leaves the candidates
RECURSIVE pickFromBlocks(_, _, _, _)
pickFromBlocks(blocks, i, want, st) ==
    IF i > Len(blocks) \/ Len(st.picked) >= want \/ st.candidates = {} THEN st
    ELSE IF blocks[i].blockService \notin st.candidates THEN pickFromBlocks(blocks, i + 1, want, st)
    ELSE pickFromBlocks(blocks, i + 1, want,
                        [picked |-> Append(st.picked, blocks[i].blockService),
                         candidates |-> st.candidates \ {blocks[i].blockService}])

fillInBlockServicesFromSpan(d, first, fileId, byteOffset, reference, locationId, want, st) ==
    IF fileId = reference /\ byteOffset = 0 THEN st
    ELSE IF Len(st.picked) >= want THEN st
    ELSE IF SeekForPrevSpan(d, reference, SoughtOffset(d, first)) = <<>> THEN st
    ELSE IF d.spans[SeekForPrevSpan(d, reference, SoughtOffset(d, first))].inline THEN st
    ELSE LET locations == d.spans[SeekForPrevSpan(d, reference, SoughtOffset(d, first))].locations
             found == {l \in 1..Len(locations) : locations[l].location = locationId}
         IN  IF found = {} THEN st
             ELSE pickFromBlocks(locations[CHOOSE l \in found : \A x \in found : l <= x].blocks, 1, want, st)

\* the loop that fills in what remains: rand.generate64() % size is any of
\* the candidates
RECURSIVE fillInRemaining(_, _)
fillInRemaining(want, st) ==
    IF Len(st.picked) >= want \/ st.candidates = {} THEN {st.picked}
    ELSE UNION {fillInRemaining(want, [picked |-> Append(st.picked, c),
                                       candidates |-> st.candidates \ {c}]) : c \in st.candidates}

\* the storage class of the entry: a disk span of location 1 goes to flash
entryStorageClass(locationId, storageClass) ==
    IF locationId = 1 /\ storageClass = HDD_STORAGE THEN FLASH_STORAGE ELSE storageClass

\* pickedBlockServices and candidateBlockServices before the spans are
\* looked at: nothing picked, every candidate of the cache to pick from
nothingPicked(currentBlockServices, locationId, req) ==
    LET candidates == candidateBlockServices(currentBlockServices, locationId,
                                             entryStorageClass(locationId, req.storageClass),
                                             req.blacklist)
    IN  [picked |-> <<>>, candidates |-> {candidates[i] : i \in 1..Len(candidates)}]

\* pickedBlockServices, as many as the request has blocks or fewer: all that
\* the preparation can come to.  fillInBlockServicesFromSpan opens an
\* iterator of its own at each of its two calls: the first span is read in
\* `dFirst`, the last one in `dLast`.
pickedBlockServices(dFirst, dLast, currentBlockServices, locationId, req, reference) ==
    LET want == ParityBlocks(req.parity)
        st0 == nothingPicked(currentBlockServices, locationId, req)
        st1 == fillInBlockServicesFromSpan(dFirst, TRUE, req.fileId, req.byteOffset, reference, locationId, want, st0)
        st2 == fillInBlockServicesFromSpan(dLast, FALSE, req.fileId, req.byteOffset, reference, locationId, want, st1)
    IN  fillInRemaining(want, st2)

\* the location and the reference file the switch of prepareLogEntry hands
\* to _prepareAddSpanInitiate
initiateLocation(req) ==
    IF req.kind = "ADD_SPAN_AT_LOCATION_INITIATE" THEN req.locationId ELSE DEFAULT_LOCATION

initiateReference(req) ==
    IF req.kind = "ADD_SPAN_INITIATE" THEN req.fileId
    ELSE IF req.kind = "ADD_SPAN_INITIATE_WITH_REFERENCE" THEN req.reference
    ELSE IF req.reference = NULL_INODE_ID THEN req.fileId ELSE req.reference

\* Files are made and get blocked spans through prepareLogEntry, with the
\* block services cache and the blacklist of the request as they may be.
MaxPickLog == 4
\* a preparation on a handle that close() has torn down may be the entry
\* after those
MaxPickLogTornDown == 5

\* block service 4 is a disk and block service 5 is in location 1
PickInfo(id) ==
    BlockServiceInfoShort(id, IF id = 5 THEN 1 ELSE DEFAULT_LOCATION,
                          IF id = 4 THEN HDD_STORAGE ELSE FLASH_STORAGE)

PickCaches ==
    {[i \in 1..Len(ids) |-> PickInfo(ids[i])] :
        ids \in {<<1, 2, 3, 4, 5, 6>>, <<6, 5, 4, 3, 2, 1>>}}

\* no blacklist, or one that names block service 1 by its id and the failure
\* domain of block service 3
PickBlacklists ==
    {<<>>, <<BlacklistEntry(<<"fd", 0>>, 1), BlacklistEntry(FailureDomain(3), 0)>>}

\* one entry at most waits between prepareLogEntry and applyLogEntry
MaxPickPending == 1

\* the thread inside prepareLogEntry: it has loaded the pointer and has not
\* opened its first iterator, or it is between the two calls of
\* fillInBlockServicesFromSpan
Picking == reader.pc \in {"loaded", "picking"}

\* the entries of the log and the one under preparation
PickReady ==
    /\ ~aborted
    /\ last = NoEntry
    /\ db.lastApplied + Len(pending) + (IF Picking THEN 1 ELSE 0) < MaxPickLog

\* a preparation is over: `last` keeps the request, the cache, the error and
\* the entry, and the index that had been applied when the first span and
\* when the last span was looked for; the entry of a preparation that gave
\* one is in the log
PickPrepared(req, currentBlockServices, p, firstAt, lastAt) ==
    /\ last' = [kind |-> req.kind, req |-> req,
                currentBlockServices |-> currentBlockServices,
                prepareErr |-> p.err, err |-> p.err, entry |-> p.entry,
                firstAt |-> firstAt, lastAt |-> lastAt]
    /\ pending' = IF p.err = "NO_ERROR" THEN Append(pending, [entry |-> p.entry]) ELSE pending

\* prepareLogEntry of a request for a blocked span: it loads the read
\* snapshot, which flush() refreshes, in a race with a close() that runs;
\* the picking then reads the spans of the reference file through it.  The
\* first span and the last span are read by two iterators.  Through a
\* snapshot both read the same state, whenever they are opened, and the
\* preparation is one step.  With the null pointer each iterator reads the
\* database as it is when it is opened, and through a released snapshot the
\* snapshot or the database, or the process dies: the preparation loads the
\* pointer here, reads the first span in a later step and the last span in
\* one after that, and entries are applied, snapshots published and the
\* pointer reset in between.
PickPrepare(req, currentBlockServices) ==
    \E loaded \in getCurrentReadSnapshot(currentReadSnapshot, flusher.closing, flusher.released) :
      IF loaded.crash
      THEN /\ aborted' = TRUE
           /\ UNCHANGED <<db, last, readVars, db2>>
      ELSE IF ~IsNull(loaded.snapshot) /\ ~loaded.released
      THEN
        /\ Len(pending) < MaxPickPending
        /\ \E picked \in pickedBlockServices(loaded.snapshot, loaded.snapshot, currentBlockServices,
                                              initiateLocation(req), req, initiateReference(req)) :
           \E p \in {prepareLogEntry(SpanDeadlineInterval, Clock(db) + 1 + Len(pending), req, picked)} :
                PickPrepared(req, currentBlockServices, p,
                             loaded.snapshot.lastApplied, loaded.snapshot.lastApplied)
        /\ UNCHANGED <<db, aborted, currentReadSnapshot, flusher, reader, history, db2, buf>>
      ELSE
        /\ reader' = [pc |-> "loaded", snapshot |-> loaded.snapshot, released |-> loaded.released,
                      req |-> req, currentBlockServices |-> currentBlockServices,
                      time |-> Clock(db) + 1 + Len(pending)]
        /\ UNCHANGED <<db, aborted, last, currentReadSnapshot, flusher, history, db2, buf, pending>>

\* the first call of fillInBlockServicesFromSpan of a preparation that has
\* loaded the null pointer or a released snapshot: its iterator reads the
\* database, or the snapshot that was, as it is now
PickPrepareFirstSpan ==
    /\ ~aborted
    /\ last = NoEntry
    /\ reader.pc = "loaded"
    /\ \E crash \in IF reader.released THEN BOOLEAN ELSE {FALSE} :
        IF crash
        THEN /\ aborted' = TRUE
             /\ UNCHANGED <<db, last, readVars, db2>>
        ELSE
            /\ \E view \in snapshotViews(reader, db) :
                reader' = [pc |-> "picking", snapshot |-> reader.snapshot,
                           released |-> reader.released, req |-> reader.req,
                           currentBlockServices |-> reader.currentBlockServices,
                           time |-> reader.time, firstAt |-> view.lastApplied,
                           st |-> fillInBlockServicesFromSpan(
                                    view, TRUE, reader.req.fileId, reader.req.byteOffset,
                                    initiateReference(reader.req), initiateLocation(reader.req),
                                    ParityBlocks(reader.req.parity),
                                    nothingPicked(reader.currentBlockServices,
                                                  initiateLocation(reader.req), reader.req))]
            /\ UNCHANGED <<db, aborted, last, currentReadSnapshot, flusher, history, db2, buf, pending>>

\* the second call of fillInBlockServicesFromSpan of a preparation that
\* reads the database itself or a released snapshot, the random picks and
\* the entry
PickPrepareLastSpan ==
    /\ ~aborted
    /\ last = NoEntry
    /\ reader.pc = "picking"
    /\ Len(pending) < MaxPickPending
    /\ \E crash \in IF reader.released THEN BOOLEAN ELSE {FALSE} :
        IF crash
        THEN /\ aborted' = TRUE
             /\ UNCHANGED <<db, last, readVars, db2>>
        ELSE
            /\ \E view \in snapshotViews(reader, db) :
               \E picked \in fillInRemaining(
                                ParityBlocks(reader.req.parity),
                                fillInBlockServicesFromSpan(
                                    view, FALSE, reader.req.fileId, reader.req.byteOffset,
                                    initiateReference(reader.req), initiateLocation(reader.req),
                                    ParityBlocks(reader.req.parity), reader.st)) :
               \E p \in {prepareLogEntry(SpanDeadlineInterval, reader.time, reader.req, picked)} :
                    PickPrepared(reader.req, reader.currentBlockServices, p,
                                 reader.firstAt, view.lastApplied)
            /\ reader' = IdleReader
            /\ UNCHANGED <<db, aborted, currentReadSnapshot, flusher, history, db2, buf>>

\* applyLogEntry of the entry that waits, at the next index
PickApply ==
    /\ ~aborted
    /\ last = NoEntry
    /\ db.lastApplied < MaxPickLog
    /\ pending # <<>>
    /\ \E r \in {applyLogEntry(SpanOptions, db, db.lastApplied + 1, Head(pending).entry)} :
        /\ pending' = Tail(pending)
        /\ IF r.err = "CRASH"
           THEN /\ aborted' = TRUE
                /\ UNCHANGED <<db, last, currentReadSnapshot, flusher, reader, history, db2, buf>>
           ELSE /\ db' = r.db
                /\ UNCHANGED <<aborted, last, currentReadSnapshot, flusher, reader, history, db2, buf>>

\* one file gets the spans; a second id is named as the reference file
\* the entries that leave the spans alone are applied between preparations
PickConstructFile == PickReady /\ ~Picking /\ ConstructFileOf(1)
PickAddSpanCertify == PickReady /\ ~Picking /\ AddSpanCertifyOf({F1})
\* the file itself, or a file that does not exist, is named as the reference;
\* AddSpanAtLocationInitiate may name none
PickReferences == {F1, InodeId(FILE, SHID, 2)}
PickReferencesAtLocation == {F1, NULL_INODE_ID}

\* AddSpanInitiate takes no reference and no location, and
\* AddSpanInitiateWithReference no location, from the request
PickRequestKinds ==
    {[kind |-> "ADD_SPAN_INITIATE", reference |-> NULL_INODE_ID, locationId |-> DEFAULT_LOCATION]}
    \cup {[kind |-> "ADD_SPAN_INITIATE_WITH_REFERENCE", reference |-> reference,
           locationId |-> DEFAULT_LOCATION] : reference \in PickReferences}
    \cup {[kind |-> "ADD_SPAN_AT_LOCATION_INITIATE", reference |-> reference, locationId |-> locationId] :
            reference \in PickReferencesAtLocation, locationId \in LocationIds}

\* close() has been called and has left no snapshot that is whole
TornDown == flusher.closing \/ flusher.released \/ IsNull(currentReadSnapshot)

\* the requests that are still prepared then: AddSpanInitiate of three flash
\* blocks at the second page, with no blacklist, and the cache in the order
\* of the ids
PickRequestKindsTornDown == {k \in PickRequestKinds : k.kind = "ADD_SPAN_INITIATE"}
PickCachesTornDown == {c \in PickCaches : c[1].id = 1}

PickAddSpanInitiate ==
    /\ ~aborted
    /\ last = NoEntry
    /\ db.lastApplied + Len(pending) < (IF TornDown THEN MaxPickLogTornDown ELSE MaxPickLog)
    /\ ~Picking
    /\ \E k \in IF TornDown THEN PickRequestKindsTornDown ELSE PickRequestKinds,
          fileId \in {F1}, byteOffset \in IF TornDown THEN {TERNFS_PAGE_SIZE} ELSE SpanOffsets,
          storageClass \in IF TornDown THEN {FLASH_STORAGE} ELSE {FLASH_STORAGE, HDD_STORAGE},
          blocks \in IF TornDown THEN {3} ELSE {1, 3},
          blacklist \in IF TornDown THEN {<<>>} ELSE PickBlacklists,
          currentBlockServices \in IF TornDown THEN PickCachesTornDown ELSE PickCaches :
        PickPrepare([kind |-> k.kind, locationId |-> k.locationId, reference |-> k.reference,
                     fileId |-> fileId,
                     cookie |-> calcCookie(fileId), byteOffset |-> byteOffset,
                     size |-> TERNFS_PAGE_SIZE, crc |-> "c", storageClass |-> storageClass,
                     parity |-> <<1, blocks - 1>>, stripes |-> 1, cellSize |-> TERNFS_PAGE_SIZE,
                     blacklist |-> blacklist], currentBlockServices)

\* flush() and close() run while no response is held; one thread flushes,
\* and it enters flush() while the pointer holds a snapshot and no close()
\* runs: a flush() races with close() when it is inside when close() begins
PickFlushGetSnapshot ==
    /\ last = NoEntry
    /\ ~flusher.closing
    /\ ~flusher.released
    /\ ~IsNull(currentReadSnapshot)
    /\ FlushGetSnapshotOn(1)

PickFlushExchange == last = NoEntry /\ FlushExchangeOn(1)

\* close() is called while no prepared entry waits
PickCloseBegin == last = NoEntry /\ pending = <<>> /\ CloseBegin

PickCloseEnd == last = NoEntry /\ CloseEnd

NextPicks ==
    \/ RespClear
    \/ PickConstructFile
    \/ PickAddSpanInitiate
    \/ PickPrepareFirstSpan
    \/ PickPrepareLastSpan
    \/ PickApply
    \/ PickAddSpanCertify
    \/ PickFlushGetSnapshot
    \/ PickFlushExchange
    \/ PickCloseBegin
    \/ PickCloseEnd

SpecPicks == Init /\ [][NextPicks]_vars

\* ------------------------------------------------------ pages of ReadDir
\* Names are one byte long; two of them have the same hash.
ReadDirNames == {"a", "b", "c"}

\* EdgeKey::computeNameHash, on the names above
computeNameHash(name) ==
    CASE name = "a" -> 5
      [] name = "b" -> 5
      [] name = "c" -> 9

\* the order of the names as bytes
NameRank(name) ==
    CASE name = "a" -> 1
      [] name = "b" -> 2
      [] name = "c" -> 3

DEFAULT_UDP_MTU == 1472
MAX_UDP_MTU == 8972
\* ShardRespMsg::STATIC_SIZE: ProtocolMessage::STATIC_SIZE is that of the
\* body, here the kind (1 byte), with the protocol version (4 bytes) and the
\* request id (8 bytes)
ShardRespMsgStaticSize == 13
\* ReadDirResp::STATIC_SIZE: the next hash (8 bytes) and the length of the
\* list of results (2 bytes)
ReadDirRespStaticSize == 10

pickMtu(mtu) ==
    IF (IF mtu = 0 THEN DEFAULT_UDP_MTU ELSE mtu) > MAX_UDP_MTU
    THEN MAX_UDP_MTU
    ELSE (IF mtu = 0 THEN DEFAULT_UDP_MTU ELSE mtu)

\* CurrentEdge::packedSize of an edge with a name of one byte: target id,
\* name hash, name with its length, creation time
CurrentEdgePackedSize == 8 + 8 + 2 + 8

\* the names of the current edges of the directory whose hash is not before
\* startHash
NamesFrom(d, dirId, startHash) ==
    {k[2] : k \in {x \in DOMAIN d.current : x[1] = dirId /\ computeNameHash(x[2]) >= startHash}}

EdgeKeyBefore(n1, n2) ==
    \/ computeNameHash(n1) < computeNameHash(n2)
    \/ computeNameHash(n1) = computeNameHash(n2) /\ NameRank(n1) < NameRank(n2)

\* the names in the order of their keys
RECURSIVE InKeyOrder(_)
InKeyOrder(names) ==
    IF names = {} THEN <<>>
    ELSE LET first == CHOOSE n \in names : \A x \in names \ {n} : EdgeKeyBefore(n, x)
         IN  <<first>> \o InKeyOrder(names \ {first})

\* the results are popped while the last of them has the hash
RECURSIVE popStraddling(_, _)
popStraddling(results, nameHash) ==
    IF results # <<>> /\ results[Len(results)].nameHash = nameHash
    THEN popStraddling(SubSeq(results, 1, Len(results) - 1), nameHash)
    ELSE results

\* the loop of _readDir over the edges from the key sought
RECURSIVE readDirLoop(_, _, _, _, _)
readDirLoop(d, dirId, names, results, budget) ==
    IF names = <<>> THEN [err |-> "NO_ERROR", results |-> results, nextHash |-> 0]
    ELSE LET respEdge == [targetId |-> d.current[CurKey(dirId, Head(names))].targetId,
                          nameHash |-> computeNameHash(Head(names)),
                          name |-> Head(names),
                          creationTime |-> d.current[CurKey(dirId, Head(names))].creationTime]
         IN  IF budget - CurrentEdgePackedSize < 0
             THEN [err |-> "NO_ERROR",
                   results |-> popStraddling(Append(results, respEdge), respEdge.nameHash),
                   nextHash |-> respEdge.nameHash]
             ELSE readDirLoop(d, dirId, Tail(names), Append(results, respEdge),
                              budget - CurrentEdgePackedSize)

readDir(options, req) ==
    IF getDirectory(options, req.dirId, FALSE).err # "NO_ERROR"
    THEN [err |-> getDirectory(options, req.dirId, FALSE).err, results |-> <<>>, nextHash |-> 0]
    ELSE readDirLoop(options, req.dirId, InKeyOrder(NamesFrom(options, req.dirId, req.startHash)), <<>>,
                     pickMtu(req.mtu) - ShardRespMsgStaticSize - ReadDirRespStaticSize)

\* Edges are made in the root directory; a client reads the directory from
\* hash 0 and goes on from the next hash of each response, with an mtu that
\* stays the same; read() runs _readDir on the read snapshot, which flush()
\* refreshes, while no paging goes on.  `last` keeps the request, the
\* response, the edges of the pages before and the number of pages.
MaxReadDirLog == 3
MaxReadDirPages == 5
ReadDirMtus == {0, 1, 40, 70, 100}

ReadDirCreateEdge ==
    /\ SpanReady(MaxReadDirLog)
    /\ \E name \in ReadDirNames :
        EntryStep(Entry("CREATE_LOCKED_CURRENT_EDGE", ClockAll(db) + 1,
                        [dirId |-> ROOT_DIR_INODE_ID, name |-> name, targetId |-> F1,
                         oldCreationTime |-> 0]))

ReadDirFirst ==
    /\ ~aborted
    /\ last = NoEntry
    /\ \E mtu \in ReadDirMtus :
       \E req \in {[dirId |-> ROOT_DIR_INODE_ID, startHash |-> 0, mtu |-> mtu]} :
            last' = [kind |-> "READ_DIR", req |-> req,
                     resp |-> readDir(readView(currentReadSnapshot, db), req),
                     seen |-> <<>>, pages |-> 1]
    /\ UNCHANGED <<db, aborted, readVars, db2>>

ReadDirNext ==
    /\ ~aborted
    /\ last.kind = "READ_DIR"
    /\ last.resp.nextHash # 0
    /\ last.pages < MaxReadDirPages
    /\ \E req \in {[last.req EXCEPT !.startHash = last.resp.nextHash]} :
            last' = [kind |-> "READ_DIR", req |-> req,
                     resp |-> readDir(readView(currentReadSnapshot, db), req),
                     seen |-> last.seen \o last.resp.results, pages |-> last.pages + 1]
    /\ UNCHANGED <<db, aborted, readVars, db2>>

ReadDirFlushGetSnapshot == last = NoEntry /\ FlushGetSnapshotOn(1)

ReadDirFlushExchange == last = NoEntry /\ FlushExchangeOn(1)

NextReadDir ==
    \/ RespClear
    \/ ReadDirCreateEdge
    \/ ReadDirFlushGetSnapshot
    \/ ReadDirFlushExchange
    \/ ReadDirFirst
    \/ ReadDirNext

SpecReadDir == Init /\ [][NextReadDir]_vars

\* --------------------------------------- sweeping of zero block counts
\* Files get spans of two blocks and lose them again, which leaves counts
\* of zero, and a client sweeps: it asks for the zero counts to be removed
\* from a key on and goes on from the key of each response.  The sweep runs
\* with the number of entries looked at that the code has and, so that a
\* request ends before the last entry, with a smaller number.  `last` keeps
\* the entry, the response, and the key the sweep began at.
MaxZeroLog == 8
MaxZeroFiles == 2
ZeroEntriesLooked == 2
ZeroFileIds == {InodeId(FILE, SHID, n) : n \in 1..MaxZeroFiles}
ZeroBlockServices == {1, 3, 5}

ZeroReady == SpanReady(MaxZeroLog)

ZeroConstructFile == ZeroReady /\ ConstructFileOf(MaxZeroFiles)

ZeroAddSpanInitiate ==
    /\ ZeroReady
    /\ \E fileId \in ZeroFileIds, picked \in PickedBlockServices(2, ZeroBlockServices) :
        SpanStep("ADD_SPAN_AT_LOCATION_INITIATE",
            [fileId |-> fileId, byteOffset |-> 0, size |-> TERNFS_PAGE_SIZE, crc |-> "c",
             storageClass |-> FLASH_STORAGE, parity |-> <<1, 1>>, stripes |-> 1,
             cellSize |-> TERNFS_PAGE_SIZE, locationId |-> DEFAULT_LOCATION,
             bodyBlocks |-> [i \in 1..2 |-> [blockServiceId |-> picked[i], crc |-> "c"]]])

ZeroRemoveSpanInitiate == ZeroReady /\ RemoveSpanInitiateOf(ZeroFileIds)

ZeroRemoveSpanCertify ==
    /\ ZeroReady
    /\ \E fileId \in ZeroFileIds :
        SpanStep("REMOVE_SPAN_CERTIFY",
                 [fileId |-> fileId, byteOffset |-> 0, proofs |-> ProofsAt(db, fileId, 0, "E")])

ZeroStep(maxEntries, entry, first) ==
    \E r \in {removeZeroBlockServiceFiles(maxEntries, db,
                    advanceLastAppliedLogEntry(db, db.lastApplied + 1), entry)} :
        /\ db' = r.b
        /\ last' = [kind |-> entry.kind, time |-> entry.time, err |-> r.err,
                    index |-> db.lastApplied + 1, entry |-> entry,
                    resp |-> [removed |-> r.removed, nextBlockService |-> r.nextBlockService,
                              nextFile |-> r.nextFile],
                    maxEntries |-> maxEntries, first |-> first]
        /\ UNCHANGED <<aborted, readVars, db2>>

ZeroSweepFirst ==
    /\ ZeroReady
    /\ \E maxEntries \in {ZeroEntriesLooked, MaxEntries},
          first \in {<<0, NULL_INODE_ID>>} \cup DOMAIN db.bsToFiles :
        ZeroStep(maxEntries,
                 Entry("REMOVE_ZERO_BLOCK_SERVICE_FILES", Clock(db) + 1,
                       [startBlockService |-> first[1], startFile |-> first[2]]),
                 first)

ZeroSweepNext ==
    /\ ~aborted
    /\ db.lastApplied < MaxZeroLog
    /\ last.kind = "REMOVE_ZERO_BLOCK_SERVICE_FILES"
    /\ <<last.resp.nextBlockService, last.resp.nextFile>> # <<0, NULL_INODE_ID>>
    /\ ZeroStep(last.maxEntries,
                Entry("REMOVE_ZERO_BLOCK_SERVICE_FILES", Clock(db) + 1,
                      [startBlockService |-> last.resp.nextBlockService,
                       startFile |-> last.resp.nextFile]),
                last.first)

NextZero ==
    \/ RespClear
    \/ ZeroConstructFile
    \/ ZeroAddSpanInitiate
    \/ ZeroRemoveSpanInitiate
    \/ ZeroRemoveSpanCertify
    \/ ZeroSweepFirst
    \/ ZeroSweepNext

SpecZero == Init /\ [][NextZero]_vars

\* ------------------------------------- a span handed over, then removals
\* The first file gets one span in location 0 and is linked; the second file
\* gets spans in location 1, hands one of them over to the first file as a
\* second location, and has its spans removed.  Proofs are those the block
\* services give.
MaxHandoverLog == 13

HandoverReady == SpanReady(MaxHandoverLog)

HandoverConstructFile == HandoverReady /\ ConstructFileOf(MaxSpanFiles)

HandoverLinkFile == HandoverReady /\ LinkFileOf({F1})

HandoverAddSpanInitiate ==
    /\ HandoverReady
    /\ \/ AddSpanInitiateOf({F1}, 1, {Placement(0, {1})})
       \/ AddSpanInitiateOf({F2}, 1, {Placement(1, {2})})

HandoverAddSpanCertify ==
    /\ HandoverReady
    /\ \E fileId \in SpanFileIds, byteOffset \in SpanOffsets :
        SpanStep("ADD_SPAN_CERTIFY",
                 [fileId |-> fileId, byteOffset |-> byteOffset,
                  proofs |-> ProofsAt(db, fileId, byteOffset, "W")])

HandoverAddSpanLocation ==
    /\ HandoverReady
    /\ \E byteOffset1 \in SpanOffsets :
        SpanStep("ADD_SPAN_LOCATION",
                 [fileId1 |-> F2, byteOffset1 |-> byteOffset1,
                  blocks1 |-> BlockIdsAt(db, F2, byteOffset1),
                  fileId2 |-> F1, byteOffset2 |-> 0])

HandoverRemoveSpanInitiate == HandoverReady /\ RemoveSpanInitiateOf({F2})

HandoverRemoveSpanCertify ==
    /\ HandoverReady
    /\ \E byteOffset \in SpanOffsets :
        SpanStep("REMOVE_SPAN_CERTIFY",
                 [fileId |-> F2, byteOffset |-> byteOffset,
                  proofs |-> ProofsAt(db, F2, byteOffset, "E")])

NextHandover ==
    \/ RespClear
    \/ HandoverConstructFile
    \/ HandoverLinkFile
    \/ HandoverAddSpanInitiate
    \/ HandoverAddSpanCertify
    \/ HandoverAddSpanLocation
    \/ HandoverRemoveSpanInitiate
    \/ HandoverRemoveSpanCertify

SpecHandover == Init /\ [][NextHandover]_vars

\* ------------------------------------------- files unlinked for good
\* Two files are constructed, linked under the root directory, soft unlinked
\* and hard unlinked; the hard unlink names either file whatever the edge
\* it names points at.
MaxUnlinkLog == 6
MaxUnlinkFiles == 2
UnlinkFileIds == {InodeId(FILE, SHID, n) : n \in 1..MaxUnlinkFiles}
UnlinkNames == {"a"}
\* the log entry time is the leader's clock: the latest stored time or later
UnlinkTimes == {ClockAll(db), ClockAll(db) + 1}

UnlinkReady == ~aborted /\ last = NoEntry /\ db.lastApplied < MaxUnlinkLog

\* the words a SetTime request carries: bit 63 and the time below it
SetTimeWords == {[top |-> FALSE, low |-> 1], [top |-> TRUE, low |-> 1]}

UnlinkConstructFile ==
    /\ UnlinkReady
    /\ db.nextFileId < InodeId(FILE, SHID, MaxUnlinkFiles)
    /\ \E t \in UnlinkTimes :
        EntryStep(Entry("CONSTRUCT_FILE", t,
                        [type |-> FILE, note |-> "n", deadlineTime |-> t + SpanDeadlineInterval]))

UnlinkLinkFile ==
    /\ UnlinkReady
    /\ \E fileId \in UnlinkFileIds, name \in UnlinkNames, t \in UnlinkTimes :
        EntryStep(Entry("LINK_FILE", t,
                        [fileId |-> fileId, ownerId |-> ROOT_DIR_INODE_ID, name |-> name]))

UnlinkSoftUnlinkFile ==
    /\ UnlinkReady
    /\ \E fileId \in UnlinkFileIds, name \in UnlinkNames, t \in UnlinkTimes :
      \E creationTime \in CreationTimes(db, ROOT_DIR_INODE_ID, name) :
        EntryStep(Entry("SOFT_UNLINK_FILE", t,
                        [ownerId |-> ROOT_DIR_INODE_ID, fileId |-> fileId, name |-> name,
                         creationTime |-> creationTime]))

\* _prepareSameShardHardFileUnlink sets the deadline to the log time
UnlinkSameShardHardFileUnlink ==
    /\ UnlinkReady
    /\ \E targetId \in UnlinkFileIds, name \in UnlinkNames, t \in UnlinkTimes :
      \E creationTime \in CreationTimes(db, ROOT_DIR_INODE_ID, name) :
        \E ub \in IF initiateDirectoryModification(db, db, t, TRUE, ROOT_DIR_INODE_ID).err = "NO_ERROR"
                  THEN {"defined"} ELSE {"crash", "hash_ok", "hash_bad"} :
            EntryStep(Entry("SAME_SHARD_HARD_FILE_UNLINK", t,
                            [ownerId |-> ROOT_DIR_INODE_ID, targetId |-> targetId, name |-> name,
                             creationTime |-> creationTime, deadlineTime |-> t, ub |-> ub]))

\* the entry of the former MakeFileTransient: it carries no deadline
UnlinkMakeFileTransientDeprecated ==
    /\ UnlinkReady
    /\ \E id \in UnlinkFileIds, t \in UnlinkTimes :
        EntryStep(Entry("MAKE_FILE_TRANSIENT_DE_PR_EC_AT_ED", t, [id |-> id, note |-> "m"]))

\* _prepareSetTime copies the two words of the request
UnlinkSetTime ==
    /\ UnlinkReady
    /\ \E id \in UnlinkFileIds, t \in UnlinkTimes, atime \in SetTimeWords, mtime \in SetTimeWords :
        EntryStep(Entry("SET_TIME", t, [id |-> id, atime |-> atime, mtime |-> mtime]))

\* an entry of a kind the switch of applyLogEntry has no arm for
UnlinkBadKind ==
    /\ UnlinkReady
    /\ \E t \in UnlinkTimes :
        EntryStep([kind |-> "EMPTY", time |-> t])

NextUnlink ==
    \/ UnlinkConstructFile
    \/ UnlinkLinkFile
    \/ UnlinkSoftUnlinkFile
    \/ UnlinkSameShardHardFileUnlink
    \/ UnlinkMakeFileTransientDeprecated
    \/ UnlinkSetTime
    \/ UnlinkBadKind
    \/ RespClear

SpecUnlink == Init /\ [][NextUnlink]_vars

\* ------------------------------------------------- the collector at work
\* Two files are built by their clients for MaxBuildLog entries.  F1 gets one
\* span in location 1 and is linked.  F2 stays transient: its clients append
\* inline spans and spans of one or two pages, certify them with the proofs
\* of their blocks, hand a span over to F1 as a second location with
\* AddSpanLocation, and remove spans from the end with RemoveSpanInitiate and
\* RemoveSpanCertify, with the erase proofs of the span that is condemned.
\* From then on the collector alone applies entries to F2, each one chosen
\* from the response to the one before: RemoveSpanInitiate, RemoveSpanCertify
\* of the span it condemned, RemoveInode once it answered FILE_EMPTY.  Entry
\* i of the clients is stamped i.
MaxBuildLog == 11

\* the entries of the collector that are looked at: two for each span that
\* MaxBuildLog entries can give a file, and the last two
MaxCollectLog == 12

\* the sizes of the spans, in pages
MaxSpanPages == 2
CollectSpanSizes == {n * TERNFS_PAGE_SIZE : n \in 1..MaxSpanPages}

BuildTime == db.lastApplied + 1

\* the collector stamps its entries past every mtime and every deadline
\* stored, each one later than the one before
CollectTime == Clock(db) + SpanDeadlineInterval + db.lastApplied

Building == SpanReady(MaxBuildLog)
Collecting ==
    /\ ~aborted
    /\ db.lastApplied >= MaxBuildLog
    /\ db.lastApplied < MaxBuildLog + MaxCollectLog
    /\ F2 \in DOMAIN db.transient

\* the response at hand is that of a RemoveSpanInitiate that went as `err`
InitiateAnswered(err) == last.kind = "REMOVE_SPAN_INITIATE" /\ last.err = err

\* the file is transient and its last span is in this state
BuildingFile(id, state) ==
    /\ id \in DOMAIN db.transient
    /\ db.transient[id].lastSpanState = state

\* the byte offsets of the blocked spans of the file
BlockedOffsets(d, id) ==
    {k[2] : k \in {x \in DOMAIN d.spans : x[1] = id /\ ~d.spans[x].inline}}

\* F2 is constructed once F1 is linked
BuildConstructFile ==
    /\ Building
    /\ db.nextFileId < F2
    /\ db.nextFileId = F1 => F1 \in DOMAIN db.files
    /\ EntryStep(Entry("CONSTRUCT_FILE", BuildTime,
                       [type |-> FILE, note |-> "n", deadlineTime |-> BuildTime + SpanDeadlineInterval]))

BuildAddInlineSpan ==
    /\ Building
    /\ BuildingFile(F2, "CLEAN")
    /\ EntryStep(Entry("ADD_INLINE_SPAN", BuildTime,
                       [fileId |-> F2, byteOffset |-> db.transient[F2].fileSize,
                        size |-> TERNFS_PAGE_SIZE, body |-> "x", crc |-> Crc("x", TERNFS_PAGE_SIZE)]))

\* a span is appended at the end of the file; F1 gets one span
BuildAddSpanInitiate ==
    /\ Building
    /\ \E fileId \in {F1, F2}, size \in CollectSpanSizes :
        /\ BuildingFile(fileId, "CLEAN")
        /\ fileId = F1 => db.transient[F1].fileSize = 0
        /\ EntryStep(Entry("ADD_SPAN_AT_LOCATION_INITIATE", BuildTime,
                        [fileId |-> fileId, byteOffset |-> db.transient[fileId].fileSize, size |-> size,
                         crc |-> "c", storageClass |-> FLASH_STORAGE, parity |-> <<1, 0>>,
                         stripes |-> 1, cellSize |-> size,
                         locationId |-> IF fileId = F1 THEN 1 ELSE DEFAULT_LOCATION,
                         bodyBlocks |-> [i \in 1..1 |->
                            [blockServiceId |-> IF fileId = F1 THEN 2 ELSE 1, crc |-> "c"]]]))

\* the span added last is certified with the proofs of its blocks; the
\* client of F2 may send the request again
BuildAddSpanCertify ==
    /\ Building
    /\ \E fileId \in {F1, F2} \cap DOMAIN db.transient :
       \E byteOffset \in {o \in BlockedOffsets(db, fileId) :
                            o + db.spans[SpanKey(fileId, o)].spanSize = db.transient[fileId].fileSize} :
        /\ BuildingFile(fileId, "DIRTY") \/ (fileId = F2 /\ BuildingFile(F2, "CLEAN"))
        /\ EntryStep(Entry("ADD_SPAN_CERTIFY", BuildTime,
                        [fileId |-> fileId, byteOffset |-> byteOffset,
                         proofs |-> ProofsAt(db, fileId, byteOffset, "W")]))

BuildLinkFile ==
    /\ Building
    /\ BuildingFile(F1, "CLEAN")
    /\ HasSpan(db, F1)
    /\ EntryStep(Entry("LINK_FILE", BuildTime,
                       [fileId |-> F1, ownerId |-> ROOT_DIR_INODE_ID, name |-> "a"]))

\* a span of F2 is handed to the span of F1 as a location more
BuildAddSpanLocation ==
    /\ Building
    /\ BuildingFile(F2, "CLEAN")
    /\ \E byteOffset1 \in BlockedOffsets(db, F2) :
        EntryStep(Entry("ADD_SPAN_LOCATION", BuildTime,
                        [fileId1 |-> F2, byteOffset1 |-> byteOffset1,
                         blocks1 |-> BlockIdsAt(db, F2, byteOffset1),
                         fileId2 |-> F1, byteOffset2 |-> 0]))

BuildRemoveSpanInitiate ==
    /\ Building
    /\ F2 \in DOMAIN db.transient
    /\ EntryStep(Entry("REMOVE_SPAN_INITIATE", BuildTime, [fileId |-> F2]))

\* the span RemoveSpanInitiate has condemned: the last one below file_size
CondemnedOffset(d) == SeekForPrevSpan(d, F2, d.transient[F2].fileSize)[2]

\* the block services erase the blocks they hold an erase certificate for,
\* those of the span that is condemned, and prove it
BuildRemoveSpanCertify ==
    /\ Building
    /\ BuildingFile(F2, "CONDEMNED")
    /\ EntryStep(Entry("REMOVE_SPAN_CERTIFY", BuildTime,
                       [fileId |-> F2, byteOffset |-> CondemnedOffset(db),
                        proofs |-> ProofsAt(db, F2, CondemnedOffset(db), "E")]))

\* the clients take their responses
BuildRespClear ==
    /\ last.index <= MaxBuildLog
    /\ RespClear

\* an entry of the collector, applied at the index after the last one
CollectStep(entry) ==
    \E r \in {applyLogEntry(SpanOptions, db, db.lastApplied + 1, entry)} :
       IF r.err = "CRASH"
       THEN /\ aborted' = TRUE
            /\ last' = SpanApplied(entry, r, db.lastApplied + 1)
            /\ UNCHANGED <<db, readVars, db2>>
       ELSE /\ db' = r.db
            /\ last' = SpanApplied(entry, r, db.lastApplied + 1)
            /\ UNCHANGED <<aborted, readVars, db2>>

CollectRemoveSpanInitiate ==
    /\ Collecting
    /\ ~(InitiateAnswered("NO_ERROR") /\ last.blocks # <<>>)
    /\ ~InitiateAnswered("FILE_EMPTY")
    /\ \E entry \in {Entry("REMOVE_SPAN_INITIATE", CollectTime, [fileId |-> F2])} :
        CollectStep(entry)

CollectRemoveSpanCertify ==
    /\ Collecting
    /\ InitiateAnswered("NO_ERROR") /\ last.blocks # <<>>
    /\ \E entry \in {Entry("REMOVE_SPAN_CERTIFY", CollectTime,
                            [fileId |-> F2, byteOffset |-> CondemnedOffset(db),
                             proofs |-> ProofsAt(db, F2, CondemnedOffset(db), "E")])} :
        CollectStep(entry)

CollectRemoveInode ==
    /\ Collecting
    /\ InitiateAnswered("FILE_EMPTY")
    /\ \E entry \in {Entry("REMOVE_INODE", CollectTime, [id |-> F2])} :
        CollectStep(entry)

Collect ==
    \/ CollectRemoveSpanInitiate
    \/ CollectRemoveSpanCertify
    \/ CollectRemoveInode

NextCollect ==
    \/ BuildConstructFile
    \/ BuildAddInlineSpan
    \/ BuildAddSpanInitiate
    \/ BuildAddSpanCertify
    \/ BuildLinkFile
    \/ BuildAddSpanLocation
    \/ BuildRemoveSpanInitiate
    \/ BuildRemoveSpanCertify
    \/ BuildRespClear
    \/ CollectRemoveSpanInitiate
    \/ CollectRemoveSpanCertify
    \/ CollectRemoveInode

\* the collector keeps applying, for MaxCollectLog entries
SpecCollect == Init /\ [][NextCollect]_vars /\ WF_vars(Collect)

\* ------------------------------------------- a second location for a span
\* Two files, one block service in each location, a log long enough to
\* link a file with one span, give a second file two spans and hand one of
\* them over as a second location.
MaxLocationLog == 11

LocationPlacements == {Placement(0, {1}), Placement(1, {2})}

LocConstructFile == SpanReady(MaxLocationLog) /\ ConstructFileOf(MaxSpanFiles)
LocLinkFile == SpanReady(MaxLocationLog) /\ LinkFileOf(SpanFileIds)
LocAddSpanInitiate == SpanReady(MaxLocationLog) /\ AddSpanInitiateOf(SpanFileIds, 1, LocationPlacements)
LocAddSpanCertify == SpanReady(MaxLocationLog) /\ AddSpanCertifyOf(SpanFileIds)
LocAddSpanLocation == SpanReady(MaxLocationLog) /\ AddSpanLocationOf(SpanFileIds)
LocRemoveZeroBlockServiceFiles == SpanReady(MaxLocationLog) /\ RemoveZeroBlockServiceFilesOf({})

NextLocations ==
    \/ RespClear
    \/ LocConstructFile
    \/ LocLinkFile
    \/ LocAddSpanInitiate
    \/ LocAddSpanCertify
    \/ LocAddSpanLocation
    \/ LocRemoveZeroBlockServiceFiles

SpecLocations == Init /\ [][NextLocations]_vars

\* -------------------------------------------------------------- properties
\* a step in which applyLogEntry is called
ApplyStep == last = NoEntry /\ last' # NoEntry
\* the error of a response that names a failure of the entry
TypedError(e) == e \notin {"NO_ERROR", "ASSERTION", "CRASH", "EXCEPTION"}
\* the call returned: it neither tripped the assertion nor died
Returned(e) == e \notin {"ASSERTION", "CRASH", "EXCEPTION"}

\* C1: every applyLogEntry(i, e) that returns, with success or with a typed
\* error, moves last_applied_log_index from i - 1 to exactly i; a call whose
\* index is not last_applied_log_index + 1 trips the assertion and changes no
\* persisted state.
C1_IndexAdvancesByOne ==
    [][ApplyStep =>
        /\ Returned(last'.err) =>
                /\ db.lastApplied = last'.index - 1
                /\ db'.lastApplied = last'.index
        /\ last'.index # db.lastApplied + 1 =>
                /\ last'.err = "ASSERTION"
                /\ aborted'
                /\ db' = db]_vars

C1_Witness ==
    /\ TypedError(last.err)
    /\ last.index = 2
    /\ db.lastApplied = 2

\* C2: when applyLogEntry answers with a typed error the persisted state
\* differs from the state before the call in last_applied_log_index alone: no
\* directory, file, transient file, span, edge, block-service-to-files entry
\* or id allocator changes; when it succeeds its writes reach the database in
\* the one batch that advances the index.
C2_ErrorChangesOnlyTheIndex ==
    [][/\ (ApplyStep /\ TypedError(last'.err)) =>
                db' = [db EXCEPT !.lastApplied = db.lastApplied + 1]
       /\ (db' # db) => (ApplyStep /\ db'.lastApplied = db.lastApplied + 1)]_vars

\* an entry failed after its directory's mtime was put in the batch
C2_Witness ==
    /\ last.kind = "SOFT_UNLINK_FILE"
    /\ last.err = "EDGE_NOT_FOUND"
    /\ db.lastApplied = last.index
    /\ db.directories[last.dirId].mtime < last.time

\* the edges of a directory, current and snapshot
EdgesUnder(d, dirId) ==
    <<[k \in {x \in DOMAIN d.current : x[1] = dirId} |-> d.current[k]],
      [k \in {x \in DOMAIN d.snapshot : x[1] = dirId} |-> d.snapshot[k]]>>

DirChanged(d1, d2, dirId) ==
    \/ d1.directories[dirId] # d2.directories[dirId]
    \/ EdgesUnder(d1, dirId) # EdgesUnder(d2, dirId)

\* C6: every entry whose application changes a directory's body or an edge
\* under it sets the directory's mtime to the log time, strictly greater than
\* the mtime before; an entry whose time is not after the mtime fails with
\* MTIME_IS_TOO_RECENT and changes nothing in the directory.
C6_DirectoryChangeBumpsMtime ==
    [][ApplyStep =>
        \A dirId \in (DOMAIN db.directories) \cap (DOMAIN db'.directories) :
            DirChanged(db, db', dirId) =>
                /\ db'.directories[dirId].mtime = last'.time
                /\ db.directories[dirId].mtime < last'.time]_vars

\* C7: the stored mtime of a directory never decreases from one state to the
\* next while the directory exists.
C7_DirectoryMtimeNeverDecreases ==
    [][\A dirId \in (DOMAIN db.directories) \cap (DOMAIN db'.directories) :
            db'.directories[dirId].mtime >= db.directories[dirId].mtime]_vars

TransientChanged(t1, t2) ==
    \/ t1.fileSize # t2.fileSize
    \/ t1.lastSpanState # t2.lastSpanState
    \/ t1.deadline # t2.deadline

\* C8: every entry whose application changes the record of an existing
\* transient file (file_size, last_span_state or deadline) sets the file's
\* mtime to the log time, strictly greater than the mtime before; an entry
\* whose time is not after the mtime fails with MTIME_IS_TOO_RECENT and
\* leaves the record alone.
C8_TransientChangeBumpsMtime ==
    [][ApplyStep =>
        \A id \in (DOMAIN db.transient) \cap (DOMAIN db'.transient) :
            TransientChanged(db.transient[id], db'.transient[id]) =>
                /\ db'.transient[id].mtime = last'.time
                /\ db.transient[id].mtime < last'.time]_vars

\* the name has snapshot edges, and the latest of them is a deletion marker
LatestIsDeletionEdge(d, dirId, name) ==
    /\ SnapshotTimes(d, dirId, name) # {}
    /\ d.snapshot[SnapKey(dirId, name, SetMax(SnapshotTimes(d, dirId, name)))] = DeletionEdge

\* C9 as stated: a (directory, name) has at most one current edge, and
\* whenever a name has snapshot edges but no current edge, the snapshot edge
\* with the greatest creation time is a deletion marker (target NULL, not
\* owned).
C9_LatestSnapshotIsDeletionEdge ==
    \A dirId \in DirIds, name \in Names :
        /\ Cardinality({k \in DOMAIN db.current : k[1] = dirId /\ k[2] = name}) <= 1
        /\ (CurKey(dirId, name) \notin DOMAIN db.current /\ SnapshotTimes(db, dirId, name) # {})
                => LatestIsDeletionEdge(db, dirId, name)

\* the entry takes a current edge away from its name
UnlinksCurrentEdge(l) ==
    /\ l.err = "NO_ERROR"
    /\ \/ l.kind \in {"SOFT_UNLINK_FILE", "SAME_DIRECTORY_RENAME"}
       \/ l.kind = "UNLOCK_CURRENT_EDGE" /\ l.wasMoved

\* C9 amended: a (directory, name) has at most one current edge, and right
\* after an entry that takes the current edge of a name away (SoftUnlinkFile,
\* the old name of SameDirectoryRename, UnlockCurrentEdge with was_moved) the
\* name has no current edge and its snapshot edge with the greatest creation
\* time is a deletion marker created at the log time.  RemoveNonOwnedEdge and
\* RemoveOwnedSnapshotFileEdge may delete that marker later.
C9_UnlinkLeavesDeletionEdge ==
    /\ []( \A dirId \in DirIds, name \in Names :
            Cardinality({k \in DOMAIN db.current : k[1] = dirId /\ k[2] = name}) <= 1 )
    /\ [][(ApplyStep /\ UnlinksCurrentEdge(last')) =>
            /\ CurKey(last'.dirId, last'.name) \in DOMAIN db.current
            /\ CurKey(last'.dirId, last'.name) \notin DOMAIN db'.current
            /\ LatestIsDeletionEdge(db', last'.dirId, last'.name)
            /\ SetMax(SnapshotTimes(db', last'.dirId, last'.name)) = last'.time]_vars

C9_Witness ==
    /\ last.kind = "SOFT_UNLINK_FILE"
    /\ last.err = "NO_ERROR"
    /\ CurKey(last.dirId, last.name) \notin DOMAIN db.current
    /\ Cardinality(SnapshotTimes(db, last.dirId, last.name)) = 2
    /\ LatestIsDeletionEdge(db, last.dirId, last.name)

CurrentUnder(d, dirId) == [k \in {x \in DOMAIN d.current : x[1] = dirId} |-> d.current[k]]

IsSnapshotDirectory(d, dirId) ==
    /\ dirId \in DOMAIN d.directories
    /\ dirId # ROOT_DIR_INODE_ID
    /\ d.directories[dirId].ownerId = NULL_INODE_ID

\* the parts of C10 that do not depend on the error RemoveDirectoryOwner
\* answers with
C10_Frame ==
    /\ [](\A dirId \in DirIds : IsSnapshotDirectory(db, dirId) => ~HasCurrentEdge(db, dirId))
    /\ [][\A dirId \in DirIds :
            IsSnapshotDirectory(db, dirId) => CurrentUnder(db', dirId) = CurrentUnder(db, dirId)]_vars
    /\ [][(ApplyStep /\ last'.kind = "REMOVE_DIRECTORY_OWNER" /\ Returned(last'.err)
                /\ HasCurrentEdge(db, last'.dirId)) =>
            /\ last'.err # "NO_ERROR"
            /\ db'.directories[last'.dirId].ownerId = db.directories[last'.dirId].ownerId
            /\ db'.directories[last'.dirId].ownerId # NULL_INODE_ID]_vars

\* C10 as stated: a non-root directory whose owner is NULL has no current
\* edges; RemoveDirectoryOwner on a directory with a current edge fails with
\* DIRECTORY_NOT_EMPTY and leaves the owner set, and it succeeds once only
\* snapshot and deletion edges remain; no entry creates, locks or unlocks a
\* current edge in a directory whose owner is NULL.
C10_RemoveOwnerNeedsNoCurrentEdge ==
    /\ C10_Frame
    /\ [][(ApplyStep /\ last'.kind = "REMOVE_DIRECTORY_OWNER" /\ Returned(last'.err)) =>
            /\ HasCurrentEdge(db, last'.dirId) => last'.err = "DIRECTORY_NOT_EMPTY"
            /\ (last'.dirId \in DOMAIN db.directories /\ ~HasCurrentEdge(db, last'.dirId)) =>
                    /\ last'.err = "NO_ERROR"
                    /\ IsSnapshotDirectory(db', last'.dirId)]_vars

\* C10 amended: as stated, but RemoveDirectoryOwner passes the mtime guard
\* first: when the log time is not after the directory's mtime it fails with
\* MTIME_IS_TOO_RECENT, whether the directory has current edges or not; with
\* a later log time it fails with DIRECTORY_NOT_EMPTY while a current edge
\* remains and succeeds once only snapshot and deletion edges remain.  In
\* every failure the owner stays as it was.
C10_RemoveOwnerAfterMtimeGuard ==
    /\ C10_Frame
    /\ [][(ApplyStep /\ last'.kind = "REMOVE_DIRECTORY_OWNER" /\ Returned(last'.err)
                /\ last'.dirId \in DOMAIN db.directories) =>
            IF db.directories[last'.dirId].mtime >= last'.time
            THEN /\ last'.err = "MTIME_IS_TOO_RECENT"
                 /\ db'.directories = db.directories
            ELSE /\ HasCurrentEdge(db, last'.dirId) =>
                        /\ last'.err = "DIRECTORY_NOT_EMPTY"
                        /\ db'.directories = db.directories
                 /\ ~HasCurrentEdge(db, last'.dirId) =>
                        /\ last'.err = "NO_ERROR"
                        /\ IsSnapshotDirectory(db', last'.dirId)
                        /\ db'.directories[last'.dirId].mtime = last'.time]_vars

\* RemoveDirectoryOwner succeeded on a directory that keeps snapshot edges
C10_Witness ==
    /\ last.kind = "REMOVE_DIRECTORY_OWNER"
    /\ last.err = "NO_ERROR"
    /\ IsSnapshotDirectory(db, last.dirId)
    /\ ~HasCurrentEdge(db, last.dirId)
    /\ HasAnyEdge(db, last.dirId)

\* C3 as stated: every read started after applyLogEntry for index i has
\* completed returns a last_applied_log_index of at least i.
C3_ReadSeesCompletedApplies ==
    reader.pc = "done" => reader.index >= reader.appliedAtStart

\* C3 amended: every read started after applyLogEntry for index i has
\* completed and after a flush(), called after that completion, has published
\* its snapshot as the last one, returns a last_applied_log_index of at
\* least i.
C3_ReadSeesFlushedApplies ==
    reader.pc = "done" => reader.index >= reader.flushedAtStart

\* a read started after entry 2 was applied and flushed
C3_Witness ==
    /\ reader.pc = "done"
    /\ reader.flushedAtStart = 2
    /\ reader.index >= 2
    /\ reader.appliedAtStart > reader.index

\* C4: a read, also one that runs while entries are applied and flushes
\* happen, returns a response and an index taken from one and the same
\* snapshot, which is the state after some complete prefix 1..k of the log;
\* the index returned is exactly k.  The read is one on the snapshot handle,
\* which is torn down after all outstanding reads complete: it has loaded a
\* snapshot and holds it.
C4_ReadIsOfOnePrefix ==
    (reader.pc = "done" /\ ~IsNull(reader.snapshot) /\ ~reader.released) =>
        \E k \in 0..(Len(history) - 1) :
            /\ reader.index = k
            /\ reader.snapshot = history[k + 1]
            /\ reader.resp = readKind(history[k + 1], reader.req)

\* a read on a snapshot that ran while two entries were applied, and
\* returned the one edge the prefix it saw had
C4_Witness ==
    /\ reader.pc = "done"
    /\ ~IsNull(reader.snapshot)
    /\ ~reader.released
    /\ reader.req.kind = "LOOKUP"
    /\ reader.resp.err = "NO_ERROR"
    /\ reader.index >= 1
    /\ db.lastApplied >= reader.appliedAtStart + 2

\* a read that raced with close() and got a released snapshot returned a
\* response of a state other than the one its index names
TornReleasedRead ==
    /\ reader.pc = "done"
    /\ reader.released
    /\ reader.index < Len(history)
    /\ reader.resp # readKind(history[reader.index + 1], reader.req)

\* a read after close() returned a response of a state other than the one
\* its index names
TornRead ==
    /\ reader.pc = "done"
    /\ IsNull(reader.snapshot)
    /\ reader.index < Len(history)
    /\ reader.resp # readKind(history[reader.index + 1], reader.req)

\* C5: applying a log is deterministic: two replicas that apply the same
\* entries from the same state reach the same state, whatever their
\* block-services caches, their configured transient deadline intervals and
\* their wall clocks.
C5_ReplicasAgree == db2 = db

\* every stored edge, current or snapshot, is under a directory that exists
EdgesHaveDirectory(d) ==
    /\ \A k \in DOMAIN d.current : k[1] \in DOMAIN d.directories
    /\ \A k \in DOMAIN d.snapshot : k[1] \in DOMAIN d.directories

\* the step applies REMOVE_INODE to a directory id, and the call returns
RemovesDirectoryInode ==
    /\ ApplyStep
    /\ last'.kind = "REMOVE_INODE"
    /\ InodeType(last'.dirId) = DIRECTORY
    /\ Returned(last'.err)

OnlyIndexAdvanced == db' = [db EXCEPT !.lastApplied = db.lastApplied + 1]

\* the parts of C11 that do not depend on the error a refused removal
\* answers with: edges have their directory, a directory disappears only by
\* RemoveInode, only with owner NULL and no edge, and removing a directory
\* that is gone succeeds and changes nothing
C11_Frame ==
    /\ [](EdgesHaveDirectory(db))
    /\ [][\A id \in DOMAIN db.directories :
            id \notin DOMAIN db'.directories =>
                /\ RemovesDirectoryInode
                /\ last'.dirId = id
                /\ last'.err = "NO_ERROR"
                /\ db.directories[id].ownerId = NULL_INODE_ID
                /\ ~HasAnyEdge(db, id)]_vars
    /\ [][(RemovesDirectoryInode /\ last'.dirId \notin DOMAIN db.directories) =>
            /\ last'.err = "NO_ERROR"
            /\ OnlyIndexAdvanced]_vars

\* C11 as stated: RemoveInode on a directory deletes it only if its owner is
\* NULL and it has neither current nor snapshot edges, otherwise it fails
\* with DIRECTORY_HAS_OWNER or DIRECTORY_NOT_EMPTY and changes nothing; on a
\* directory that is gone it succeeds and changes nothing; every stored edge
\* belongs to a directory that exists.
C11_RemoveInodeNeedsNoOwnerNoEdge ==
    /\ C11_Frame
    /\ [][(RemovesDirectoryInode /\ last'.dirId \in DOMAIN db.directories) =>
            IF db.directories[last'.dirId].ownerId # NULL_INODE_ID
            THEN last'.err = "DIRECTORY_HAS_OWNER" /\ OnlyIndexAdvanced
            ELSE IF HasAnyEdge(db, last'.dirId)
            THEN last'.err = "DIRECTORY_NOT_EMPTY" /\ OnlyIndexAdvanced
            ELSE /\ last'.err = "NO_ERROR"
                 /\ last'.dirId \notin DOMAIN db'.directories]_vars

\* C11 amended: as stated, but RemoveInode on a directory that exists passes
\* the mtime guard first: when the log time is not after the directory's
\* mtime it fails with MTIME_IS_TOO_RECENT and changes nothing, whatever the
\* owner and the edges; with a later log time it fails with
\* DIRECTORY_HAS_OWNER when the owner is set, else with DIRECTORY_NOT_EMPTY
\* when an edge remains, and else deletes the directory.
C11_RemoveInodeAfterMtimeGuard ==
    /\ C11_Frame
    /\ [][(RemovesDirectoryInode /\ last'.dirId \in DOMAIN db.directories) =>
            IF db.directories[last'.dirId].mtime >= last'.time
            THEN last'.err = "MTIME_IS_TOO_RECENT" /\ OnlyIndexAdvanced
            ELSE IF db.directories[last'.dirId].ownerId # NULL_INODE_ID
            THEN last'.err = "DIRECTORY_HAS_OWNER" /\ OnlyIndexAdvanced
            ELSE IF HasAnyEdge(db, last'.dirId)
            THEN last'.err = "DIRECTORY_NOT_EMPTY" /\ OnlyIndexAdvanced
            ELSE /\ last'.err = "NO_ERROR"
                 /\ db' = [db EXCEPT !.lastApplied = db.lastApplied + 1,
                                     !.directories = Delete(@, last'.dirId)]]_vars

\* RemoveInode was refused on a snapshot directory that keeps an edge
C11_Witness ==
    /\ last.kind = "REMOVE_INODE"
    /\ last.err = "DIRECTORY_NOT_EMPTY"
    /\ IsSnapshotDirectory(db, last.dirId)
    /\ HasAnyEdge(db, last.dirId)

\* the block-services-to-files value of (blockServiceId, fileId), 0 when absent
BlockCount(d, blockServiceId, fileId) ==
    IF <<blockServiceId, fileId>> \in DOMAIN d.bsToFiles THEN d.bsToFiles[<<blockServiceId, fileId>>] ELSE 0

\* some span of the file has a block on the block service
HasBlockOn(d, blockServiceId, fileId) ==
    \E k \in DOMAIN d.spans :
        /\ k[1] = fileId
        /\ ~d.spans[k].inline
        /\ \E i \in DOMAIN AllBlocks(d.spans[k].locations) :
                AllBlocks(d.spans[k].locations)[i].blockService = blockServiceId

\* C12: in every reachable state, for every block service and file, the
\* block-services-to-files value is never negative, and it is 0 (or absent)
\* exactly when no span of the file has a block on the block service.
C12_CountsMatchBlocks ==
    \A blockServiceId \in BlockServices, fileId \in SpanFileIds :
        /\ BlockCount(db, blockServiceId, fileId) >= 0
        /\ BlockCount(db, blockServiceId, fileId) = 0 <=> ~HasBlockOn(db, blockServiceId, fileId)

\* the spans of the file that end at its file_size
TailSpans(d, fileId) ==
    {k \in DOMAIN d.spans : k[1] = fileId /\ k[2] + d.spans[k].spanSize = d.transient[fileId].fileSize}

\* C13: in every reachable state, every transient file whose last_span_state
\* is DIRTY has a span that ends at its file_size, and that tail span is a
\* blocked span with exactly one location.
C13_DirtyTailIsOneLocation ==
    \A fileId \in DOMAIN db.transient :
        db.transient[fileId].lastSpanState = "DIRTY" =>
            /\ TailSpans(db, fileId) # {}
            /\ \A k \in TailSpans(db, fileId) :
                    ~db.spans[k].inline /\ Len(db.spans[k].locations) = 1

\* a span was moved: its source is clean again and its destination is dirty
C13_Witness ==
    /\ last # NoEntry
    /\ last.kind = "MOVE_SPAN"
    /\ last.err = "NO_ERROR"
    /\ db.transient[last.entry.fileId2].lastSpanState = "DIRTY"
    /\ db.transient[last.entry.fileId1].lastSpanState = "CLEAN"
    /\ TailSpans(db, last.entry.fileId2) = {SpanKey(last.entry.fileId2, last.entry.byteOffset2)}

\* the transient files whose last_span_state differs across the step
SpanStateChanged == 
    {f \in DOMAIN db.transient \cap DOMAIN db'.transient :
        db'.transient[f].lastSpanState # db.transient[f].lastSpanState}

\* the step took file f from one last_span_state to another by this entry kind
SpanStateMove(f, from, to, kind) ==
    /\ db.transient[f].lastSpanState = from
    /\ db'.transient[f].lastSpanState = to
    /\ last'.kind = kind
    /\ last'.err = "NO_ERROR"

\* the tail span RemoveSpanInitiate finds for the file is a blocked span
TailIsBlocked(d, f) ==
    /\ SeekForPrevSpan(d, f, d.transient[f].fileSize) # <<>>
    /\ ~d.spans[SeekForPrevSpan(d, f, d.transient[f].fileSize)].inline

\* the transitions the lifecycle of the tail span names
SpanStateNamedMove(f) ==
    \/ SpanStateMove(f, "CLEAN", "DIRTY", "ADD_SPAN_AT_LOCATION_INITIATE") /\ last'.entry.fileId = f
    \/ SpanStateMove(f, "CLEAN", "DIRTY", "MOVE_SPAN") /\ last'.entry.fileId2 = f
    \/ SpanStateMove(f, "DIRTY", "CLEAN", "ADD_SPAN_CERTIFY") /\ last'.entry.fileId = f
    \/ SpanStateMove(f, "DIRTY", "CLEAN", "MOVE_SPAN") /\ last'.entry.fileId1 = f
    \/ /\ SpanStateMove(f, "CLEAN", "CONDEMNED", "REMOVE_SPAN_INITIATE")
       /\ last'.entry.fileId = f
       /\ TailIsBlocked(db, f)
    \/ SpanStateMove(f, "CONDEMNED", "CLEAN", "REMOVE_SPAN_CERTIFY") /\ last'.entry.fileId = f

\* the step applied an entry that adds a new span, inline or blocked, at the
\* end of a live transient file whose last_span_state is not CLEAN
AddsSpanWhileNotClean ==
    /\ last' # NoEntry
    /\ last'.kind \in {"ADD_INLINE_SPAN", "ADD_SPAN_AT_LOCATION_INITIATE"}
    /\ last'.kind = "ADD_INLINE_SPAN" => last'.entry.body # ""
    /\ initiateTransientFileModification(SpanDeadlineInterval, db, db, last'.time, FALSE,
                                         last'.entry.fileId).err = "NO_ERROR"
    /\ db.transient[last'.entry.fileId].lastSpanState # "CLEAN"
    /\ db.transient[last'.entry.fileId].fileSize = last'.entry.byteOffset

AddWhileNotCleanFails ==
    AddsSpanWhileNotClean =>
        /\ last'.err = "LAST_SPAN_STATE_NOT_CLEAN"
        /\ db' = [db EXCEPT !.lastApplied = @ + 1]

\* C14 as stated: the last_span_state of a transient file changes only from
\* CLEAN to DIRTY (AddSpanInitiate, destination of MoveSpan), DIRTY to CLEAN
\* (AddSpanCertify, source of MoveSpan), CLEAN to CONDEMNED (RemoveSpanInitiate
\* on a blocked tail) and CONDEMNED to CLEAN (RemoveSpanCertify), and adding a
\* span while the state is not CLEAN fails with LAST_SPAN_STATE_NOT_CLEAN.
C14_OnlyNamedTransitions ==
    [][/\ \A f \in SpanStateChanged : SpanStateNamedMove(f)
       /\ AddWhileNotCleanFails]_vars

\* C14: the last_span_state of a transient file changes only along the named
\* transitions or from DIRTY to CONDEMNED by RemoveSpanInitiate on a blocked
\* tail, and adding a span at the end of a live transient file whose state is
\* not CLEAN fails with LAST_SPAN_STATE_NOT_CLEAN and changes nothing.
C14_TransitionsWithDirtyCondemned ==
    [][/\ \A f \in SpanStateChanged :
            \/ SpanStateNamedMove(f)
            \/ /\ SpanStateMove(f, "DIRTY", "CONDEMNED", "REMOVE_SPAN_INITIATE")
               /\ last'.entry.fileId = f
               /\ TailIsBlocked(db, f)
       /\ AddWhileNotCleanFails]_vars

\* the fourth entry of a log: a file was constructed, a span initiated and,
\* never certified, condemned; adding a span at the end of the file then failed
C14_Witness ==
    /\ last # NoEntry
    /\ last.index = 4
    /\ last.kind = "ADD_SPAN_AT_LOCATION_INITIATE"
    /\ last.err = "LAST_SPAN_STATE_NOT_CLEAN"
    /\ DOMAIN db.transient = {last.entry.fileId}
    /\ db.transient[last.entry.fileId].lastSpanState = "CONDEMNED"
    /\ db.transient[last.entry.fileId].fileSize = last.entry.byteOffset

\* the step applied an AddSpanCertify entry to a live transient file whose
\* tail span, the span the entry names, is DIRTY
CertifiesDirtyTail ==
    /\ last' # NoEntry
    /\ last'.kind = "ADD_SPAN_CERTIFY"
    /\ initiateTransientFileModification(SpanDeadlineInterval, db, db, last'.time, FALSE,
                                         last'.entry.fileId).err = "NO_ERROR"
    /\ db.transient[last'.entry.fileId].lastSpanState = "DIRTY"
    /\ SpanKey(last'.entry.fileId, last'.entry.byteOffset) \in TailSpans(db, last'.entry.fileId)

\* proof i is the add-proof MAC, under the key of block i's block service, of
\* block i's own block service id and block id
OwnAddProofs(blocks, proofs) ==
    \A i \in 1..Len(blocks) :
        proofs[i].proof = cbcmac(SecretKey(blocks[i].blockService),
                                 <<blocks[i].blockService, "W", blocks[i].blockId>>)

\* C15: AddSpanCertify moves a DIRTY tail span to CLEAN only if the entry
\* carries exactly one proof per block of the span and proof i is a valid
\* add-proof MAC, under the block service's key, for block i's own block
\* service id and block id; a wrong number of proofs fails with
\* BAD_NUMBER_OF_BLOCKS_PROOFS and an invalid proof with BAD_BLOCK_PROOF, and
\* both leave the tail DIRTY.
C15_CertifyNeedsOwnProofs ==
    [][CertifiesDirtyTail =>
        LET blocks == BlocksAt(db, last'.entry.fileId, last'.entry.byteOffset)
            proofs == last'.entry.proofs
        IN  IF Len(proofs) # Len(blocks)
            THEN /\ last'.err = "BAD_NUMBER_OF_BLOCKS_PROOFS"
                 /\ db'.transient[last'.entry.fileId].lastSpanState = "DIRTY"
            ELSE IF ~OwnAddProofs(blocks, proofs)
            THEN /\ last'.err = "BAD_BLOCK_PROOF"
                 /\ db'.transient[last'.entry.fileId].lastSpanState = "DIRTY"
            ELSE /\ last'.err = "NO_ERROR"
                 /\ db'.transient[last'.entry.fileId].lastSpanState = "CLEAN"]_vars

\* the step applied a RemoveSpanCertify entry to a transient file that passes
\* the mtime guard
CertifiesRemoval ==
    /\ last' # NoEntry
    /\ last'.kind = "REMOVE_SPAN_CERTIFY"
    /\ initiateTransientFileModification(SpanDeadlineInterval, db, db, last'.time, TRUE,
                                         last'.entry.fileId).err = "NO_ERROR"

\* in order, exactly one delete-proof for every block, each naming the block's
\* own id and carrying the erase MAC under the key of the block's service
OwnDeleteProofs(blocks, proofs) ==
    /\ Len(proofs) = Len(blocks)
    /\ \A i \in 1..Len(blocks) :
            proofs[i] = BlockProof(blocks[i].blockService, blocks[i].blockId, "E")

\* the database after an entry that was applied and changed nothing
OnlyApplied(d) == [d EXCEPT !.lastApplied = @ + 1]

\* what RemoveSpanCertify does to a blocked span that is still stored
RemovesCertifiedSpan(gone) ==
    CertifiesRemoval =>
        LET fileId == last'.entry.fileId
            sk == SpanKey(last'.entry.fileId, last'.entry.byteOffset)
            blocks == BlocksAt(db, last'.entry.fileId, last'.entry.byteOffset)
            proofs == last'.entry.proofs
        IN  IF sk \notin DOMAIN db.spans THEN last'.err = "NO_ERROR" /\ db' = gone
            ELSE IF db.spans[sk].inline THEN last'.err # "NO_ERROR" /\ db' = OnlyApplied(db)
            ELSE IF db.transient[fileId].lastSpanState = "CONDEMNED" /\ OwnDeleteProofs(blocks, proofs)
            THEN /\ last'.err = "NO_ERROR"
                 /\ db'.spans = Delete(db.spans, sk)
                 /\ db'.transient[fileId].fileSize = sk[2]
                 /\ db'.transient[fileId].lastSpanState = "CLEAN"
                 /\ \A bs \in BlockServices :
                        BlockCount(db', bs, fileId) =
                            BlockCount(db, bs, fileId)
                                - Cardinality({i \in 1..Len(blocks) : blocks[i].blockService = bs})
            ELSE /\ db' = OnlyApplied(db)
                 /\ db.transient[fileId].lastSpanState = "CONDEMNED" =>
                        last'.err \in {"BAD_NUMBER_OF_BLOCKS_PROOFS", "BAD_BLOCK_PROOF"}
                 /\ db.transient[fileId].lastSpanState # "CONDEMNED" => last'.err # "NO_ERROR"

\* C16 as stated: RemoveSpanCertify deletes a blocked span only when the state
\* is CONDEMNED and the entry carries, in order, one valid delete-proof for
\* every block, each naming the block's own id; then the span is deleted,
\* file_size becomes its byte_offset, the state becomes CLEAN and each block's
\* count drops by one; otherwise it fails and nothing changes; and when the
\* span is already gone it returns success without change.
C16_RemoveCertifyGoneChangesNothing ==
    [][RemovesCertifiedSpan(OnlyApplied(db))]_vars

\* C16: as above, except that when the span is already gone RemoveSpanCertify
\* returns success and sets the mtime of the transient file to the entry's
\* time, changing nothing else.
C16_RemoveCertifyGoneTouchesMtime ==
    [][RemovesCertifiedSpan(
            [OnlyApplied(db) EXCEPT !.transient[last'.entry.fileId].mtime = last'.time])]_vars

\* a condemned span with two blocks was deleted on its delete-proofs
C16_Witness ==
    /\ last # NoEntry
    /\ last.kind = "REMOVE_SPAN_CERTIFY"
    /\ last.err = "NO_ERROR"
    /\ Len(last.entry.proofs) = 2
    /\ SpanKey(last.entry.fileId, last.entry.byteOffset) \notin DOMAIN db.spans
    /\ db.transient[last.entry.fileId].fileSize = last.entry.byteOffset
    /\ db.transient[last.entry.fileId].lastSpanState = "CLEAN"
    /\ \A bs \in BlockServices : BlockCount(db, bs, last.entry.fileId) = 0

\* the database without what a repeated request may touch: the mtimes, the
\* deadlines and the last applied log index
WithoutTimes(d) ==
    [d EXCEPT !.lastApplied = 0,
              !.directories = [id \in DOMAIN @ |-> [@[id] EXCEPT !.mtime = 0]],
              !.files = [id \in DOMAIN @ |-> [@[id] EXCEPT !.mtime = 0]],
              !.transient = [id \in DOMAIN @ |-> [@[id] EXCEPT !.mtime = 0, !.deadline = 0]]]

\* what the request asks for is there already: the blocks or the spans are
\* swapped, the edge is missing, the directory has the owner, or none
AlreadyDone(d, entry) ==
    CASE entry.kind = "SWAP_BLOCKS" ->
            /\ \E i \in DOMAIN BlockIdsAt(d, entry.fileId2, entry.byteOffset2) :
                    BlockIdsAt(d, entry.fileId2, entry.byteOffset2)[i] = entry.blockId1
            /\ \E i \in DOMAIN BlockIdsAt(d, entry.fileId1, entry.byteOffset1) :
                    BlockIdsAt(d, entry.fileId1, entry.byteOffset1)[i] = entry.blockId2
      [] entry.kind = "SWAP_SPANS" ->
            /\ BlockIdsAt(d, entry.fileId1, entry.byteOffset1) = entry.blocks2
            /\ BlockIdsAt(d, entry.fileId2, entry.byteOffset2) = entry.blocks1
      [] entry.kind = "REMOVE_NON_OWNED_EDGE" ->
            SnapKey(entry.dirId, entry.name, entry.creationTime) \notin DOMAIN d.snapshot
      [] entry.kind = "SET_DIRECTORY_OWNER" ->
            /\ entry.dirId \in DOMAIN d.directories
            /\ d.directories[entry.dirId].ownerId = entry.ownerId
      [] entry.kind = "REMOVE_DIRECTORY_OWNER" ->
            /\ entry.dirId \in DOMAIN d.directories
            /\ d.directories[entry.dirId].ownerId = NULL_INODE_ID
      [] OTHER -> TRUE

\* the step applies again, at a later time, an entry that was applied with
\* success, in a state where what it asks for is there already
Repeats ==
    /\ pending # <<>>
    /\ last = NoEntry
    /\ last' # NoEntry
    /\ "repeated" \in DOMAIN last'
    /\ Head(pending).entry.kind \in RetryKinds
    /\ last'.time > Head(pending).entry.time
    /\ last'.entry = [Head(pending).entry EXCEPT !.time = last'.time]
    /\ AlreadyDone(db, Head(pending).entry)

\* the step applies the entry again right after its first application, at
\* the next log time
RepeatsAtOnce ==
    /\ Repeats
    /\ last'.index = Head(pending).index + 1
    /\ last'.time = ClockAll(db) + 1

\* C17: applying again, at a later log time, a LinkFile, AddSpanInitiate,
\* AddSpanCertify, SwapBlocks, SwapSpans, RemoveNonOwnedEdge, SetDirectoryOwner
\* or RemoveDirectoryOwner entry that has been applied with success (the
\* blocks or spans swapped, the edge missing, the directory in the target
\* state) returns success and changes no state other than mtimes, deadlines
\* and the last applied log index.
C17_RepeatIsAlreadyDone ==
    [][Repeats => /\ last'.err = "NO_ERROR"
                  /\ WithoutTimes(db') = WithoutTimes(db)]_vars

\* a repetition right after the first application, at the next log time, is
\* answered as already done
RepeatAtOnceIsAlreadyDone ==
    [][RepeatsAtOnce => /\ last'.err = "NO_ERROR"
                        /\ WithoutTimes(db') = WithoutTimes(db)]_vars

\* an AddSpanInitiate or AddSpanCertify entry was applied again after the
\* deadline of its file, and the file was not found
RepeatPastDeadline ==
    /\ last # NoEntry
    /\ "repeated" \in DOMAIN last
    /\ last.kind \in {"ADD_SPAN_AT_LOCATION_INITIATE", "ADD_SPAN_CERTIFY"}
    /\ last.err = "FILE_NOT_FOUND"

\* an AddSpanInitiate entry was applied again after the file had got a
\* further span, and the span was not found
RepeatAfterFurtherSpan ==
    /\ last # NoEntry
    /\ "repeated" \in DOMAIN last
    /\ last.kind = "ADD_SPAN_AT_LOCATION_INITIATE"
    /\ last.err = "SPAN_NOT_FOUND"
    /\ SpanKey(last.entry.fileId, last.entry.byteOffset) \in DOMAIN db.spans

\* two blocks that had been swapped between two files were swapped again by
\* the same entry, with success
RepeatedSwapIsAlreadyDone ==
    /\ last # NoEntry
    /\ "repeated" \in DOMAIN last
    /\ last.kind = "SWAP_BLOCKS"
    /\ last.err = "NO_ERROR"
    /\ last.entry.blockId1 # last.entry.blockId2
    /\ \E i \in DOMAIN BlockIdsAt(db, last.entry.fileId2, last.entry.byteOffset2) :
            BlockIdsAt(db, last.entry.fileId2, last.entry.byteOffset2)[i] = last.entry.blockId1

\* the step applied an AddSpanInitiate entry to a live transient file at a
\* byte_offset other than its file_size
InitiatesBeforeEnd ==
    /\ last' # NoEntry
    /\ last'.kind = "ADD_SPAN_AT_LOCATION_INITIATE"
    /\ initiateTransientFileModification(SpanDeadlineInterval, db, db, last'.time, FALSE,
                                         last'.entry.fileId).err = "NO_ERROR"
    /\ db.transient[last'.entry.fileId].fileSize # last'.entry.byteOffset

\* the stored span matches the entry in size, crc, storage class, parity,
\* stripes, cell size and location
SameSpan(span, entry) ==
    /\ ~span.inline
    /\ Len(span.locations) = 1
    /\ span.spanSize = entry.size
    /\ span.crc = entry.crc
    /\ span.locations[1].storageClass = entry.storageClass
    /\ span.locations[1].parity = entry.parity
    /\ span.locations[1].stripes = entry.stripes
    /\ span.locations[1].cellSize = entry.cellSize
    /\ span.locations[1].location = entry.locationId

\* C18: AddSpanInitiate applied with byte_offset = file_size - size where a
\* span exists that matches the entry in size, crc, storage class, parity,
\* stripes, cell size and location returns that span's blocks (same block
\* services, same block ids), allocates no block id and changes no span and
\* no block-services-to-files count; with a mismatch in any of these, or any
\* other byte_offset different from file_size, it yields SPAN_NOT_FOUND.
C18_SameSpanSameBlocks ==
    [][InitiatesBeforeEnd =>
        LET entry == last'.entry
            sk == SpanKey(last'.entry.fileId, last'.entry.byteOffset)
        IN  IF /\ db.transient[entry.fileId].fileSize = entry.byteOffset + entry.size
               /\ sk \in DOMAIN db.spans
               /\ SameSpan(db.spans[sk], entry)
            THEN /\ last'.err = "NO_ERROR"
                 /\ Len(last'.blocks) = Len(db.spans[sk].locations[1].blocks)
                 /\ \A i \in DOMAIN last'.blocks :
                        /\ last'.blocks[i].blockServiceId = db.spans[sk].locations[1].blocks[i].blockService
                        /\ last'.blocks[i].blockId = db.spans[sk].locations[1].blocks[i].blockId
                 /\ db'.nextBlockId = db.nextBlockId
                 /\ db'.spans = db.spans
                 /\ db'.bsToFiles = db.bsToFiles
            ELSE /\ last'.err = "SPAN_NOT_FOUND"
                 /\ db' = OnlyApplied(db)]_vars

\* a request was answered: read, or prepared and then applied
Answered == "req" \in DOMAIN last /\ last.prepareErr = "NO_ERROR" /\ last.err # "CRASH"

\* C19: for every request kind, the response to a request that succeeds
\* (a read, or prepareLogEntry and then applyLogEntry of the prepared entry)
\* has the request's kind, and the response to one that fails is ERROR with
\* the error code.
C19_RespKindIsReqKind ==
    Answered =>
        IF last.err = "NO_ERROR"
        THEN last.resp.kind = last.req.kind
        ELSE last.resp = [kind |-> "ERROR", error |-> last.err]

\* the name under which a request would create a current edge
NewEdgeName(req) ==
    CASE req.kind \in {"LINK_FILE", "CREATE_LOCKED_CURRENT_EDGE"} -> req.name
      [] req.kind \in {"SAME_DIRECTORY_RENAME", "SAME_DIRECTORY_RENAME_SNAPSHOT"} -> req.newName

CreatesCurrentEdge(req) ==
    req.kind \in {"LINK_FILE", "CREATE_LOCKED_CURRENT_EDGE", "SAME_DIRECTORY_RENAME",
                  "SAME_DIRECTORY_RENAME_SNAPSHOT"}

\* C20: prepareLogEntry rejects every LinkFile, SameDirectoryRename,
\* SameDirectoryRenameSnapshot and CreateLockedCurrentEdge request whose new
\* name is empty, "." or "..", or contains '/' or NUL, so that no current edge
\* stored by applying prepared entries has such a name.
C20_InvalidNamesRejected ==
    /\ ("req" \in DOMAIN last /\ CreatesCurrentEdge(last.req) /\ ~validName(NewEdgeName(last.req)))
            => last.prepareErr # "NO_ERROR"
    /\ \A ck \in DOMAIN db.current : validName(ck[2])

\* the ids of the blocks stored in the spans of d
StoredBlockIds(d) ==
    UNION {{BlocksAt(d, sk[1], sk[2])[i].blockId : i \in DOMAIN BlocksAt(d, sk[1], sk[2])} :
                sk \in DOMAIN d.spans}

\* the inodes that this step has constructed
Constructed == (DOMAIN db'.transient) \ (DOMAIN db.transient \cup DOMAIN db.files)

\* this step has handed out blocks that no span held
AllocatesBlocks ==
    /\ last'.kind = "ADD_SPAN_AT_LOCATION_INITIATE"
    /\ last'.err = "NO_ERROR"
    /\ \E i \in DOMAIN last'.blocks : last'.blocks[i].blockId \notin StoredBlockIds(db)

\* the counter a block id is made from: the stored counter for the first
\* block of the entry, the id of the block before for the others
BlockIdBefore(i) == IF i = 1 THEN db.nextBlockId ELSE last'.blocks[i - 1].blockId

\* C21: the id of every file or symlink ConstructFile makes is the counter of
\* its type advanced by exactly 256, which is the new value of the counter;
\* the id of every block AddSpanInitiate makes is
\* max(prev + 256, shard | (log entry time & ~0xFF)), the last of them the
\* new value of the counter; each has the shard in its low byte and is above
\* the counter before; and no step, failed or not, takes a counter back.
C21_IdsAscend ==
    [][/\ db'.nextFileId >= db.nextFileId
       /\ db'.nextSymlinkId >= db.nextSymlinkId
       /\ db'.nextBlockId >= db.nextBlockId
       /\ ("err" \in DOMAIN last' /\ last'.err # "NO_ERROR") =>
              /\ db'.nextFileId = db.nextFileId
              /\ db'.nextSymlinkId = db.nextSymlinkId
              /\ db'.nextBlockId = db.nextBlockId
       /\ (last'.kind = "CONSTRUCT_FILE" /\ last'.err = "NO_ERROR") => Cardinality(Constructed) = 1
       /\ \A id \in Constructed :
              /\ last'.kind = "CONSTRUCT_FILE"
              /\ id % 256 = SHID
              /\ InodeType(id) = last'.entry.type
              /\ IF last'.entry.type = FILE
                 THEN /\ id = db.nextFileId + 256
                      /\ db'.nextFileId = id
                      /\ db'.nextSymlinkId = db.nextSymlinkId
                 ELSE /\ id = db.nextSymlinkId + 256
                      /\ db'.nextSymlinkId = id
                      /\ db'.nextFileId = db.nextFileId
       /\ AllocatesBlocks =>
              /\ Len(last'.blocks) = ParityBlocks(last'.entry.parity)
              /\ \A i \in DOMAIN last'.blocks :
                    /\ last'.blocks[i].blockId =
                            Max2(BlockIdBefore(i) + 256,
                                 SHID + (last'.time - (last'.time % 256)))
                    /\ last'.blocks[i].blockId > db.nextBlockId
                    /\ last'.blocks[i].blockId % 256 = SHID
                    /\ last'.blocks[i].blockId \notin StoredBlockIds(db)
              /\ db'.nextBlockId = last'.blocks[Len(last'.blocks)].blockId
       /\ db'.nextBlockId # db.nextBlockId => AllocatesBlocks
      ]_vars

\* two blocks were made at a time past a multiple of 256 that lies above the
\* counter, after a file and a symlink had been constructed and an entry had
\* failed
C21_Witness ==
    /\ last.kind = "ADD_SPAN_AT_LOCATION_INITIATE"
    /\ last.err = "NO_ERROR"
    /\ Len(last.blocks) = 2
    /\ last.time = 700
    /\ last.blocks[1].blockId = SHID + 512
    /\ last.blocks[2].blockId = SHID + 768
    /\ db.nextBlockId = SHID + 768
    /\ db.nextFileId = initDb.nextFileId + 256
    /\ db.nextSymlinkId = initDb.nextSymlinkId + 256

\* where the packing of the item of `last` ended
PackedUpTo == last.at + packedSize(last.item)

\* C22: packing a scalar, a byte string or a list advances the cursor by the
\* value's packedSize(), and unpacking what was packed gives a value equal to
\* the original and advances the cursor by the bytes that were written.
C22_UnpackIsInverseOfPack ==
    /\ (last.kind = "PACK" /\ last.err = "NO_ERROR") =>
            /\ buf.cursor = PackedUpTo
            /\ buf.cursor <= Len(buf.data)
    /\ (last.kind = "UNPACK" /\ last.err = "NO_ERROR") =>
            /\ last.value = last.item.value
            /\ buf.cursor = PackedUpTo
    /\ (last.kind = "UNPACK" /\ Len(buf.data) >= PackedUpTo) => last.err = "NO_ERROR"

\* the longest byte string was unpacked after a list of two byte integers
C22_Witness ==
    /\ last.kind = "UNPACK"
    /\ last.err = "NO_ERROR"
    /\ last.item.type = "BYTES"
    /\ last.value.size = MaxBytesLen
    /\ last.at > 0
    /\ buf.items[1].type = "LIST"
    /\ buf.items[1].w = 2

\* this step applies a CreateDirectoryInode of a directory id
CreatesDirectory ==
    /\ last = NoEntry
    /\ last'.kind = "CREATE_DIRECTORY_INODE"

\* C23: CreateDirectoryInode creates the directory only when none with that
\* id is stored; a stored one is never overwritten: the apply succeeds and
\* changes nothing when the stored owner is the entry's, and fails with
\* MISMATCHING_OWNER when it is not.
C23_StoredDirectoryIsKept ==
    [][CreatesDirectory =>
        IF last'.entry.id \in DOMAIN db.directories
        THEN /\ db'.directories = db.directories
             /\ db.directories[last'.entry.id].ownerId = last'.entry.ownerId
                    => last'.err = "NO_ERROR" /\ db' = OnlyApplied(db)
             /\ db.directories[last'.entry.id].ownerId # last'.entry.ownerId
                    => last'.err = "MISMATCHING_OWNER"
        ELSE /\ last'.err = "NO_ERROR"
             /\ db' = [OnlyApplied(db) EXCEPT !.directories =
                            Put(@, last'.entry.id,
                                [ownerId |-> last'.entry.ownerId, mtime |-> last'.time,
                                 info |-> last'.entry.info])]
      ]_vars

\* the transient files whose record this successful apply has changed
ModifiedTransient ==
    IF last = NoEntry /\ last' # NoEntry /\ last'.err = "NO_ERROR"
    THEN {id \in DOMAIN db.transient \cap DOMAIN db'.transient : db'.transient[id] # db.transient[id]}
    ELSE {}

\* the applies that clean a file up and take it past its deadline
CleansUp(kind) == kind \in {"REMOVE_SPAN_INITIATE", "REMOVE_SPAN_CERTIFY", "MOVE_SPAN"}

\* C24: an apply that modifies the record of an existing transient file
\* leaves its deadline at log entry time + transient deadline interval,
\* except ScrapTransientFile, which leaves it at the time in the entry.
C24_DeadlineFollowsEveryChange ==
    [][\A id \in ModifiedTransient :
            IF last'.kind = "SCRAP_TRANSIENT_FILE"
            THEN db'.transient[id].deadline = last'.entry.deadlineTime
            ELSE db'.transient[id].deadline = last'.time + SpanDeadlineInterval
      ]_vars

\* C24, as the code has it: RemoveSpanInitiate, RemoveSpanCertify and MoveSpan
\* modify the record and leave the deadline as it was; ScrapTransientFile
\* sets it to the time in the entry; every other apply that modifies the
\* record leaves it at log entry time + transient deadline interval.
C24_DeadlineFollowsChangeUnlessCleanup ==
    [][\A id \in ModifiedTransient :
            IF last'.kind = "SCRAP_TRANSIENT_FILE"
            THEN db'.transient[id].deadline = last'.entry.deadlineTime
            ELSE IF CleansUp(last'.kind)
            THEN db'.transient[id].deadline = db.transient[id].deadline
            ELSE db'.transient[id].deadline = last'.time + SpanDeadlineInterval
      ]_vars

\* a span was moved between two files of different deadlines, neither of
\* which is the entry's time + interval, after one of them had been scrapped
C24_Witness ==
    /\ last.kind = "MOVE_SPAN"
    /\ last.err = "NO_ERROR"
    /\ db.transient[last.entry.fileId1].mtime = last.time
    /\ db.transient[last.entry.fileId2].mtime = last.time
    /\ db.transient[last.entry.fileId2].lastSpanState = "DIRTY"
    /\ db.transient[last.entry.fileId1].deadline # last.time + SpanDeadlineInterval
    /\ db.transient[last.entry.fileId2].deadline # last.time + SpanDeadlineInterval
    /\ db.transient[last.entry.fileId1].deadline # db.transient[last.entry.fileId2].deadline

\* the four log entries that create a current edge
EdgeCreations ==
    {"LINK_FILE", "SAME_DIRECTORY_RENAME", "SAME_DIRECTORY_RENAME_SNAPSHOT", "CREATE_LOCKED_CURRENT_EDGE"}

\* the directory, the name and the target of the edge an entry creates
CreatedDir(e) == IF e.kind = "LINK_FILE" THEN e.ownerId ELSE e.dirId
CreatedName(e) ==
    IF e.kind \in {"LINK_FILE", "CREATE_LOCKED_CURRENT_EDGE"} THEN e.name ELSE e.newName
CreatedTarget(e) == IF e.kind = "LINK_FILE" THEN e.fileId ELSE e.targetId

\* what each handler asks for before it creates the edge: a directory older
\* than the entry, and the handler's own source (a clean transient file within
\* its deadline, the current edge renamed, the owned snapshot edge renamed)
ComesToCreation(d, e) ==
    /\ CreatedDir(e) \in DOMAIN d.directories
    /\ d.directories[CreatedDir(e)].ownerId # NULL_INODE_ID \/ CreatedDir(e) = ROOT_DIR_INODE_ID
    /\ d.directories[CreatedDir(e)].mtime < e.time
    /\ e.kind = "LINK_FILE" =>
            /\ e.fileId \in DOMAIN d.transient
            /\ e.time <= d.transient[e.fileId].deadline
            /\ d.transient[e.fileId].lastSpanState = "CLEAN"
    /\ e.kind = "SAME_DIRECTORY_RENAME" =>
            /\ CurKey(e.dirId, e.oldName) \in DOMAIN d.current
            /\ d.current[CurKey(e.dirId, e.oldName)] =
                    [targetId |-> e.targetId, locked |-> FALSE, creationTime |-> e.oldCreationTime]
    /\ e.kind = "SAME_DIRECTORY_RENAME_SNAPSHOT" =>
            /\ SnapKey(e.dirId, e.oldName, e.oldCreationTime) \in DOMAIN d.snapshot
            /\ d.snapshot[SnapKey(e.dirId, e.oldName, e.oldCreationTime)] =
                    [targetId |-> e.targetId, owned |-> TRUE]

\* this step applies a creation onto a name whose current edge is unlocked
CreatesOverUnlocked ==
    /\ ApplyStep
    /\ last'.kind \in EdgeCreations
    /\ ComesToCreation(db, last'.entry)
    /\ CurKey(CreatedDir(last'.entry), CreatedName(last'.entry)) \in DOMAIN db.current
    /\ ~db.current[CurKey(CreatedDir(last'.entry), CreatedName(last'.entry))].locked

\* C25: creating a current edge (LinkFile, SameDirectoryRename,
\* SameDirectoryRenameSnapshot, CreateLockedCurrentEdge) on a name whose
\* current edge exists and is unlocked fails with CANNOT_OVERRIDE_NAME if the
\* new or the existing target is a directory and with MORE_RECENT_CURRENT_EDGE
\* if the existing creation time is at or after the log entry time; otherwise
\* the existing edge becomes an owned snapshot edge at its own creation time
\* and the new current edge has the log entry time as its creation time, and
\* a SameDirectoryRename also leaves for the old name a non-owned snapshot
\* edge at its old creation time and a deletion marker at the log entry time.
C25_OverrideOfUnlockedEdge ==
    [][CreatesOverUnlocked =>
        LET e == last'.entry
            dirId == CreatedDir(e)
            name == CreatedName(e)
            existing == db.current[CurKey(dirId, name)]
            aDirectory == InodeType(CreatedTarget(e)) = DIRECTORY \/ InodeType(existing.targetId) = DIRECTORY
        IN  /\ aDirectory => last'.err = "CANNOT_OVERRIDE_NAME"
            /\ existing.creationTime >= e.time => last'.err = "MORE_RECENT_CURRENT_EDGE"
            /\ ~aDirectory /\ existing.creationTime < e.time =>
                    /\ last'.err = "NO_ERROR"
                    /\ SnapKey(dirId, name, existing.creationTime) \in DOMAIN db'.snapshot
                    /\ db'.snapshot[SnapKey(dirId, name, existing.creationTime)] =
                            [targetId |-> existing.targetId, owned |-> TRUE]
                    /\ db'.current[CurKey(dirId, name)].targetId = CreatedTarget(e)
                    /\ db'.current[CurKey(dirId, name)].creationTime = e.time
                    /\ e.kind = "SAME_DIRECTORY_RENAME" =>
                            /\ CurKey(dirId, e.oldName) \notin DOMAIN db'.current
                            /\ SnapKey(dirId, e.oldName, e.oldCreationTime) \in DOMAIN db'.snapshot
                            /\ db'.snapshot[SnapKey(dirId, e.oldName, e.oldCreationTime)] =
                                    [targetId |-> e.targetId, owned |-> FALSE]
                            /\ SnapKey(dirId, e.oldName, e.time) \in DOMAIN db'.snapshot
                            /\ db'.snapshot[SnapKey(dirId, e.oldName, e.time)] = DeletionEdge
    ]_vars

\* a rename has just overridden an unlocked edge: the only snapshot edge of
\* the new name is the overridden one, and the old name has its two
C25_Witness ==
    /\ last # NoEntry
    /\ last.kind = "SAME_DIRECTORY_RENAME"
    /\ last.err = "NO_ERROR"
    /\ Cardinality(SnapshotTimes(db, last.entry.dirId, last.entry.newName)) = 1
    /\ \A t \in SnapshotTimes(db, last.entry.dirId, last.entry.newName) :
            /\ db.snapshot[SnapKey(last.entry.dirId, last.entry.newName, t)].owned
            /\ t < last.time
    /\ SnapshotTimes(db, last.entry.dirId, last.entry.oldName) = {last.entry.oldCreationTime, last.time}
    /\ db.current[CurKey(last.entry.dirId, last.entry.newName)].creationTime = last.time


\* the directory of an entry can be modified at the entry's time
DirectoryOpen(d, dirId, time) ==
    /\ dirId \in DOMAIN d.directories
    /\ d.directories[dirId].ownerId # NULL_INODE_ID \/ dirId = ROOT_DIR_INODE_ID
    /\ d.directories[dirId].mtime < time

\* the current edge of the name is there and locked
LockedEdge(d, dirId, name) ==
    /\ CurKey(dirId, name) \in DOMAIN d.current
    /\ d.current[CurKey(dirId, name)].locked

\* the edge an entry takes away: the file's name of a soft unlink, the old
\* name of a rename
TakesAway(e, dirId, name) ==
    \/ e.kind = "SOFT_UNLINK_FILE" /\ e.ownerId = dirId /\ e.name = name
    \/ e.kind = "SAME_DIRECTORY_RENAME" /\ e.dirId = dirId /\ e.oldName = name

TakenTarget(e) == IF e.kind = "SOFT_UNLINK_FILE" THEN e.fileId ELSE e.targetId
TakenCreationTime(e) == IF e.kind = "SOFT_UNLINK_FILE" THEN e.creationTime ELSE e.oldCreationTime

\* C26: while a current edge is locked, no entry other than UnlockCurrentEdge
\* removes it or changes its target or its creation time: LinkFile, a rename
\* onto it and every unlocked creation fail with NAME_IS_LOCKED, a soft unlink
\* of it and a rename away from it fail with EDGE_IS_LOCKED, and
\* CreateLockedCurrentEdge succeeds only with the same target and old creation
\* time (else MISMATCHING_TARGET or MISMATCHING_CREATION_TIME), and then the
\* edge keeps its creation time.
C26_LockedEdgeStays ==
    [][ApplyStep =>
        LET e == last'.entry IN
        /\ e.kind # "UNLOCK_CURRENT_EDGE" =>
                \A ck \in DOMAIN db.current :
                    db.current[ck].locked =>
                        /\ ck \in DOMAIN db'.current
                        /\ db'.current[ck].targetId = db.current[ck].targetId
                        /\ db'.current[ck].creationTime = db.current[ck].creationTime
        /\ e.kind \in EdgeCreations \ {"CREATE_LOCKED_CURRENT_EDGE"}
                /\ ComesToCreation(db, e) /\ LockedEdge(db, CreatedDir(e), CreatedName(e))
            => last'.err = "NAME_IS_LOCKED"
        /\ \A ck \in DOMAIN db.current :
                /\ TakesAway(e, ck[1], ck[2])
                /\ DirectoryOpen(db, ck[1], e.time)
                /\ db.current[ck] = [targetId |-> TakenTarget(e), locked |-> TRUE,
                                      creationTime |-> TakenCreationTime(e)]
                => last'.err = "EDGE_IS_LOCKED"
        /\ e.kind = "CREATE_LOCKED_CURRENT_EDGE"
                /\ DirectoryOpen(db, e.dirId, e.time) /\ LockedEdge(db, e.dirId, e.name)
            => LET existing == db.current[CurKey(e.dirId, e.name)] IN
               /\ last'.err = "NO_ERROR" <=>
                        existing.targetId = e.targetId /\ existing.creationTime = e.oldCreationTime
               /\ last'.err \in {"NO_ERROR", "MISMATCHING_TARGET", "MISMATCHING_CREATION_TIME"}
               /\ last'.err = "MISMATCHING_TARGET" => existing.targetId # e.targetId
               /\ last'.err = "MISMATCHING_CREATION_TIME" => existing.creationTime # e.oldCreationTime
    ]_vars

\* a CreateLockedCurrentEdge has just succeeded on an edge that was locked:
\* the edge is older than the entry
C26_Witness ==
    /\ last # NoEntry
    /\ last.kind = "CREATE_LOCKED_CURRENT_EDGE"
    /\ last.err = "NO_ERROR"
    /\ LockedEdge(db, last.entry.dirId, last.entry.name)
    /\ db.current[CurKey(last.entry.dirId, last.entry.name)].creationTime < last.time
    /\ db.current[CurKey(last.entry.dirId, last.entry.name)].creationTime = last.entry.oldCreationTime


\* every snapshot edge of a name is older than the name's current edge
SnapshotsOlderThanCurrent(d) ==
    \A ck \in DOMAIN d.current :
        \A t \in SnapshotTimes(d, ck[1], ck[2]) : t < d.current[ck].creationTime

\* this step applies a creation onto a name that has no current edge
CreatesOverNothing ==
    /\ ApplyStep
    /\ last'.kind \in EdgeCreations
    /\ ComesToCreation(db, last'.entry)
    /\ CurKey(CreatedDir(last'.entry), CreatedName(last'.entry)) \notin DOMAIN db.current

\* C27: in every reachable state every snapshot edge of a (directory, name)
\* that has a current edge is strictly older than the current edge; creating
\* a current edge for a name without one fails with MORE_RECENT_SNAPSHOT_EDGE
\* when a snapshot edge of the name is at or after the log entry time; and no
\* step writes another target over a snapshot edge.
C27_SnapshotEdgesAreOlder ==
    /\ []SnapshotsOlderThanCurrent(db)
    /\ [][/\ CreatesOverNothing =>
                LET e == last'.entry
                    snaps == SnapshotTimes(db, CreatedDir(e), CreatedName(e))
                IN  IF \E t \in snaps : t >= e.time
                    THEN /\ last'.err = "MORE_RECENT_SNAPSHOT_EDGE"
                         /\ db'.current = db.current
                         /\ db'.snapshot = db.snapshot
                    ELSE /\ last'.err = "NO_ERROR"
                         /\ db'.current[CurKey(CreatedDir(e), CreatedName(e))].creationTime = e.time
           /\ \A k \in DOMAIN db.snapshot \cap DOMAIN db'.snapshot :
                    db'.snapshot[k].targetId = db.snapshot[k].targetId
         ]_vars

\* a creation has just failed on the snapshot edges of its name
C27_Witness ==
    /\ last # NoEntry
    /\ last.kind = "CREATE_LOCKED_CURRENT_EDGE"
    /\ last.err = "MORE_RECENT_SNAPSHOT_EDGE"
    /\ CurKey(last.entry.dirId, last.entry.name) \notin DOMAIN db.current
    /\ \E t \in SnapshotTimes(db, last.entry.dirId, last.entry.name) : t >= last.time
    /\ db.directories[last.entry.dirId].mtime < last.time


\* this step applies a SoftUnlinkFile
SoftUnlinks ==
    /\ ApplyStep
    /\ last'.kind = "SOFT_UNLINK_FILE"

\* C28: SoftUnlinkFile succeeds only if the current edge of the name exists,
\* has the given target and creation time and is not locked; otherwise it
\* fails with EDGE_NOT_FOUND, MISMATCHING_TARGET, MISMATCHING_CREATION_TIME or
\* EDGE_IS_LOCKED and changes nothing; on success the current edge is gone
\* and exactly two snapshot edges are added for the name: the old target at
\* the old creation time, owned, and a deletion marker (target NULL, not
\* owned) at the log entry time.
C28_SoftUnlinkLeavesTwoSnapshotEdges ==
    [][SoftUnlinks =>
        LET e == last'.entry
            ck == CurKey(e.ownerId, e.name)
            found == ck \in DOMAIN db.current
            matches ==
                /\ found
                /\ db.current[ck] =
                        [targetId |-> e.fileId, locked |-> FALSE, creationTime |-> e.creationTime]
        IN  /\ last'.err = "NO_ERROR" => matches
            /\ last'.err # "NO_ERROR" => db' = OnlyApplied(db)
            /\ DirectoryOpen(db, e.ownerId, e.time) =>
                    last'.err =
                        IF ~found THEN "EDGE_NOT_FOUND"
                        ELSE IF db.current[ck].targetId # e.fileId THEN "MISMATCHING_TARGET"
                        ELSE IF db.current[ck].creationTime # e.creationTime
                             THEN "MISMATCHING_CREATION_TIME"
                        ELSE IF db.current[ck].locked THEN "EDGE_IS_LOCKED"
                        ELSE "NO_ERROR"
            /\ last'.err = "NO_ERROR" =>
                    /\ DOMAIN db'.current = (DOMAIN db.current) \ {ck}
                    /\ \A k \in DOMAIN db'.current : db'.current[k] = db.current[k]
                    /\ (DOMAIN db'.snapshot) \ (DOMAIN db.snapshot) =
                            {SnapKey(e.ownerId, e.name, e.creationTime), SnapKey(e.ownerId, e.name, e.time)}
                    /\ e.creationTime # e.time
                    /\ \A k \in DOMAIN db.snapshot :
                            k \in DOMAIN db'.snapshot /\ db'.snapshot[k] = db.snapshot[k]
                    /\ db'.snapshot[SnapKey(e.ownerId, e.name, e.creationTime)] =
                            [targetId |-> e.fileId, owned |-> TRUE]
                    /\ db'.snapshot[SnapKey(e.ownerId, e.name, e.time)] =
                            [targetId |-> NULL_INODE_ID, owned |-> FALSE]
    ]_vars

\* a SoftUnlinkFile has just succeeded: the name has no current edge, and has
\* the owned snapshot edge of the file and the deletion marker
C28_Witness ==
    /\ last # NoEntry
    /\ last.kind = "SOFT_UNLINK_FILE"
    /\ last.err = "NO_ERROR"
    /\ CurKey(last.entry.ownerId, last.entry.name) \notin DOMAIN db.current
    /\ SnapKey(last.entry.ownerId, last.entry.name, last.entry.creationTime) \in DOMAIN db.snapshot
    /\ db.snapshot[SnapKey(last.entry.ownerId, last.entry.name, last.entry.creationTime)].owned
    /\ SnapKey(last.entry.ownerId, last.entry.name, last.time) \in DOMAIN db.snapshot
    /\ db.snapshot[SnapKey(last.entry.ownerId, last.entry.name, last.time)] = DeletionEdge


\* this step applies a LinkFile of a file that is transient
LinksTransient ==
    /\ ApplyStep
    /\ last'.kind = "LINK_FILE"
    /\ last'.entry.fileId \in DOMAIN db.transient

\* no inode id is both a committed and a transient file
FilesApartFromTransient(d) == DOMAIN d.files \cap DOMAIN d.transient = {}

\* C29: LinkFile links a transient file only if its last span state is CLEAN
\* (else LAST_SPAN_STATE_NOT_CLEAN) and the log entry time is not past its
\* deadline; on success the inode has left the transient files and is a
\* committed file of the same size, and the owner directory has an unlocked
\* current edge to it with the log entry time as creation time; if the edge
\* cannot be created the file stays transient; and in every reachable state
\* no inode id is at once a committed and a transient file.
C29_LinkFileCommitsCleanFile ==
    /\ []FilesApartFromTransient(db)
    /\ [][LinksTransient =>
            LET e == last'.entry
                file == db.transient[e.fileId]
            IN  /\ last'.err = "NO_ERROR" =>
                        /\ file.lastSpanState = "CLEAN"
                        /\ e.time <= file.deadline
                        /\ e.fileId \notin DOMAIN db'.transient
                        /\ e.fileId \in DOMAIN db'.files
                        /\ db'.files[e.fileId].fileSize = file.fileSize
                        /\ CurKey(e.ownerId, e.name) \in DOMAIN db'.current
                        /\ db'.current[CurKey(e.ownerId, e.name)] =
                                [targetId |-> e.fileId, locked |-> FALSE, creationTime |-> e.time]
                /\ e.time <= file.deadline /\ file.lastSpanState # "CLEAN" =>
                        last'.err = "LAST_SPAN_STATE_NOT_CLEAN"
                /\ last'.err # "NO_ERROR" =>
                        /\ e.fileId \in DOMAIN db'.transient
                        /\ db'.transient[e.fileId] = file
                        /\ e.fileId \notin DOMAIN db'.files
         ]_vars


\* the blocks of one location are on pairwise distinct block services
DistinctBlockServices(loc) ==
    \A i, j \in 1..Len(loc.blocks) :
        i # j => loc.blocks[i].blockService # loc.blocks[j].blockService

\* ... and in pairwise distinct failure domains
DistinctFailureDomains(loc) ==
    \A i, j \in 1..Len(loc.blocks) :
        i # j => FailureDomain(loc.blocks[i].blockService) # FailureDomain(loc.blocks[j].blockService)

\* the locations of the spans with blocks
BlockLocations(d) ==
    UNION {{d.spans[k].locations[l] : l \in 1..Len(d.spans[k].locations)} :
                k \in {x \in DOMAIN d.spans : ~d.spans[x].inline}}

\* the location of a span's block with the block replaced, as the swap
\* would leave it
LocationAfterSwap(span, blockId, newBlock) ==
    withBlock(span, findBlock(span, blockId), newBlock).locations[findBlock(span, blockId)[1]]

BlockOf(span, blockId) ==
    span.locations[findBlock(span, blockId)[1]].blocks[findBlock(span, blockId)[2]]

\* C30: SwapBlocks never produces a span location with two blocks on the
\* same block service or in the same failure domain: such a swap fails with
\* SWAP_BLOCKS_DUPLICATE_BLOCK_SERVICE or SWAP_BLOCKS_DUPLICATE_FAILURE_DOMAIN
\* and changes no state; and in every reachable state the blocks of each
\* location of each span are on pairwise distinct block services.
C30_SwapKeepsBlockServicesApart ==
    /\ [](\A loc \in BlockLocations(db) : DistinctBlockServices(loc))
    /\ [][ApplyStep /\ last'.kind = "SWAP_BLOCKS" =>
            LET e == last'.entry
                span1 == db.spans[SpanKey(e.fileId1, e.byteOffset1)]
                span2 == db.spans[SpanKey(e.fileId2, e.byteOffset2)]
                after1 == LocationAfterSwap(span1, e.blockId1, BlockOf(span2, e.blockId2))
                after2 == LocationAfterSwap(span2, e.blockId2, BlockOf(span1, e.blockId1))
            IN  /\ last'.err = "NO_ERROR" =>
                    \A loc \in BlockLocations(db') :
                        DistinctBlockServices(loc) /\ DistinctFailureDomains(loc)
                /\ last'.err = "SWAP_BLOCKS_DUPLICATE_BLOCK_SERVICE" =>
                    /\ ~DistinctBlockServices(after1) \/ ~DistinctBlockServices(after2)
                    /\ db' = OnlyApplied(db)
                /\ last'.err = "SWAP_BLOCKS_DUPLICATE_FAILURE_DOMAIN" =>
                    /\ ~DistinctFailureDomains(after1) \/ ~DistinctFailureDomains(after2)
                    /\ db' = OnlyApplied(db)
                /\ last'.err \notin {"SWAP_BLOCKS_DUPLICATE_BLOCK_SERVICE",
                                     "SWAP_BLOCKS_DUPLICATE_FAILURE_DOMAIN"}
                    /\ SpanKey(e.fileId1, e.byteOffset1) \in DOMAIN db.spans
                    /\ SpanKey(e.fileId2, e.byteOffset2) \in DOMAIN db.spans
                    /\ findBlock(span1, e.blockId1)[1] > 0
                    /\ findBlock(span2, e.blockId2)[1] > 0
                    /\ ~(DistinctFailureDomains(after1) /\ DistinctFailureDomains(after2))
                    => /\ last'.err # "NO_ERROR"
                       /\ db' = OnlyApplied(db)
         ]_vars

\* a swap has just been refused for the failure domain: the two spans hold
\* the blocks they held, each on two block services of two failure domains
C30_Witness ==
    /\ last # NoEntry
    /\ last.kind = "SWAP_BLOCKS"
    /\ last.err = "SWAP_BLOCKS_DUPLICATE_FAILURE_DOMAIN"
    /\ findBlock(db.spans[SpanKey(last.entry.fileId1, last.entry.byteOffset1)], last.entry.blockId1)[1] > 0
    /\ findBlock(db.spans[SpanKey(last.entry.fileId2, last.entry.byteOffset2)], last.entry.blockId2)[1] > 0
    /\ \A loc \in BlockLocations(db) :
            Len(loc.blocks) = 2 /\ DistinctBlockServices(loc) /\ DistinctFailureDomains(loc)


\* the blocks of a location that are on a block service
BlocksOn(loc, blockServiceId) ==
    Cardinality({i \in 1..Len(loc.blocks) : loc.blocks[i].blockService = blockServiceId})

\* the files and the destination span an AddSpanLocation needs
LocationEntryReady(d, e) ==
    /\ e.fileId2 \in DOMAIN d.files
    /\ e.fileId1 \in DOMAIN d.transient
    /\ d.transient[e.fileId1].lastSpanState = "CLEAN"
    /\ SpanKey(e.fileId2, e.byteOffset2) \in DOMAIN d.spans
    /\ ~d.spans[SpanKey(e.fileId2, e.byteOffset2)].inline

\* the source span an AddSpanLocation needs, but for its location id
LocationSourceFits(d, e) ==
    /\ SpanKey(e.fileId1, e.byteOffset1) \in DOMAIN d.spans
    /\ ~d.spans[SpanKey(e.fileId1, e.byteOffset1)].inline
    /\ d.spans[SpanKey(e.fileId1, e.byteOffset1)].spanSize = d.spans[SpanKey(e.fileId2, e.byteOffset2)].spanSize
    /\ d.spans[SpanKey(e.fileId1, e.byteOffset1)].crc = d.spans[SpanKey(e.fileId2, e.byteOffset2)].crc
    /\ Len(d.spans[SpanKey(e.fileId1, e.byteOffset1)].locations) = 1

\* the destination span has a location with the id of the source's
LocationThere(d, e) ==
    \E i \in 1..Len(d.spans[SpanKey(e.fileId2, e.byteOffset2)].locations) :
        d.spans[SpanKey(e.fileId2, e.byteOffset2)].locations[i].location =
            d.spans[SpanKey(e.fileId1, e.byteOffset1)].locations[1].location

\* the source span is gone and the destination span has the entry's blocks
LocationAlreadyAdded(d, e) ==
    /\ LocationEntryReady(d, e)
    /\ SpanKey(e.fileId1, e.byteOffset1) \notin DOMAIN d.spans
    /\ findBlocksLocIdx(d.spans[SpanKey(e.fileId2, e.byteOffset2)], e.blocks1) # 0

\* no span has two locations with the same location id
LocationIdsDiffer(d) ==
    \A k \in DOMAIN d.spans :
        ~d.spans[k].inline =>
            \A i, j \in 1..Len(d.spans[k].locations) :
                i # j => d.spans[k].locations[i].location # d.spans[k].locations[j].location

\* what a successful AddSpanLocation that moves the source span does
MovesLocation(e) ==
    LET sk == SpanKey(e.fileId1, e.byteOffset1)
        dk == SpanKey(e.fileId2, e.byteOffset2)
        moved == db.spans[sk].locations[1]
    IN  /\ sk \notin DOMAIN db'.spans
        /\ db'.spans[dk].locations = Append(db.spans[dk].locations, moved)
        /\ db'.transient[e.fileId1].fileSize = db.transient[e.fileId1].fileSize - db.spans[sk].spanSize
        /\ \A i \in 1..Len(moved.blocks) :
                LET bs == moved.blocks[i].blockService IN
                /\ BlockCount(db', bs, e.fileId2) = BlockCount(db, bs, e.fileId2) + BlocksOn(moved, bs)
                /\ BlockCount(db', bs, e.fileId1) = BlockCount(db, bs, e.fileId1) - BlocksOn(moved, bs)

\* what every AddSpanLocation does, success of an entry whose source span is
\* gone left aside
LocationStepIsRight(e) ==
    /\ last'.err # "NO_ERROR" => db' = OnlyApplied(db)
    /\ last'.err = "NO_ERROR" /\ ~LocationAlreadyAdded(db, e) =>
            /\ LocationEntryReady(db, e)
            /\ LocationSourceFits(db, e)
            /\ ~LocationThere(db, e)
            /\ MovesLocation(e)
    /\ /\ LocationEntryReady(db, e) /\ LocationSourceFits(db, e) /\ LocationThere(db, e)
       /\ db.transient[e.fileId1].mtime < e.time /\ e.time <= db.transient[e.fileId1].deadline
       => last'.err \in {"ADD_SPAN_LOCATION_EXISTS", "ADD_SPAN_LOCATION_NOT_CLEAN"}

\* C31 as stated: AddSpanLocation succeeds only if the destination is a
\* committed file, the source transient file is CLEAN, both spans are blocked
\* with equal size and crc, the source span has one location and the
\* destination span has none with its id (else ADD_SPAN_LOCATION_EXISTS and
\* the other errors, with no change); on success the source span's blocks are
\* one more location of the destination span, the source span is deleted, the
\* transient file shrinks by the span size and the block counts move; and no
\* span has two locations with the same location id.
C31_AddSpanLocationMovesTheSpan ==
    /\ []LocationIdsDiffer(db)
    /\ [][ApplyStep /\ last'.kind = "ADD_SPAN_LOCATION" =>
            /\ LocationStepIsRight(last'.entry)
            /\ last'.err = "NO_ERROR" => ~LocationAlreadyAdded(db, last'.entry)
         ]_vars

\* C31, amended: as stated, but AddSpanLocation also succeeds when the source
\* span is gone and the destination span already has the entry's blocks as a
\* location, and then it changes no span, no count and no file size.
C31_AddSpanLocationMovesOrIsDone ==
    /\ []LocationIdsDiffer(db)
    /\ [][ApplyStep /\ last'.kind = "ADD_SPAN_LOCATION" =>
            /\ LocationStepIsRight(last'.entry)
            /\ last'.err = "NO_ERROR" /\ LocationAlreadyAdded(db, last'.entry) =>
                    /\ db'.spans = db.spans
                    /\ db'.bsToFiles = db.bsToFiles
                    /\ db'.files = db.files
                    /\ db'.transient[last'.entry.fileId1].fileSize =
                            db.transient[last'.entry.fileId1].fileSize
         ]_vars

\* an AddSpanLocation has just moved a span: the destination span has two
\* locations, the second with the entry's blocks, and the source span is gone
C31_Witness ==
    /\ last # NoEntry
    /\ last.kind = "ADD_SPAN_LOCATION"
    /\ last.err = "NO_ERROR"
    /\ SpanKey(last.entry.fileId1, last.entry.byteOffset1) \notin DOMAIN db.spans
    /\ Len(db.spans[SpanKey(last.entry.fileId2, last.entry.byteOffset2)].locations) = 2
    /\ findBlocksLocIdx(db.spans[SpanKey(last.entry.fileId2, last.entry.byteOffset2)],
                        last.entry.blocks1) = 2
    /\ db.transient[last.entry.fileId1].mtime = last.time


\* every stored span is a span of a committed or of a transient file
SpansHaveFiles(d) ==
    \A k \in DOMAIN d.spans : k[1] \in (DOMAIN d.files) \cup (DOMAIN d.transient)

\* what RemoveInode does to the file or symlink `id` at `time`
RemovesFileInode(id, time) ==
    IF id \in DOMAIN db.files
    THEN last'.err = "FILE_IS_NOT_TRANSIENT" /\ db' = OnlyApplied(db)
    ELSE IF id \notin DOMAIN db.transient
    THEN last'.err = "NO_ERROR" /\ db' = OnlyApplied(db)
    ELSE IF db.transient[id].deadline >= time
    THEN last'.err = "DEADLINE_NOT_PASSED" /\ db' = OnlyApplied(db)
    ELSE IF \E k \in DOMAIN db.spans : k[1] = id
    THEN last'.err = "FILE_NOT_EMPTY" /\ db' = OnlyApplied(db)
    ELSE /\ last'.err = "NO_ERROR"
         /\ db' = OnlyApplied([db EXCEPT !.transient = [x \in (DOMAIN @) \ {id} |-> @[x]]])

\* C32: RemoveInode on a file or symlink deletes the inode only if it is
\* transient, its deadline is strictly before the log entry time and it has
\* no spans (otherwise FILE_IS_NOT_TRANSIENT, DEADLINE_NOT_PASSED or
\* FILE_NOT_EMPTY, with no change), and returns success without change when
\* the inode is already gone; in every reachable state every stored span
\* belongs to an existing committed or transient file.
C32_RemoveInodeLeavesNoOrphanSpan ==
    /\ []SpansHaveFiles(db)
    /\ [][ApplyStep /\ last'.kind = "REMOVE_INODE" /\ IsFileType(last'.entry.id) =>
            RemovesFileInode(last'.entry.id, last'.time)]_vars

\* RemoveInode has just deleted a transient file while spans are stored
C32_Witness ==
    /\ last # NoEntry
    /\ last.kind = "REMOVE_INODE"
    /\ last.err = "NO_ERROR"
    /\ last.entry.id <= db.nextFileId
    /\ last.entry.id \notin (DOMAIN db.files) \cup (DOMAIN db.transient)
    /\ DOMAIN db.spans # {}


\* the current block services of the location and the storage class that do
\* not match the blacklist
EligibleBlockServices(currentBlockServices, locationId, storageClass, blacklist) ==
    {currentBlockServices[i].id : i \in
        {i \in 1..Len(currentBlockServices) :
            /\ currentBlockServices[i].locationId = locationId
            /\ currentBlockServices[i].storageClass = storageClass
            /\ \A j \in 1..Len(blacklist) :
                    /\ blacklist[j].blockService # currentBlockServices[i].id
                    /\ blacklist[j].failureDomain # currentBlockServices[i].failureDomain}}

\* the request passes the checks that come before the picking
InitiateIsSound(req) ==
    /\ IsFileType(req.fileId)
    /\ IsFileType(initiateReference(req))
    /\ InodeShard(req.fileId) = SHID
    /\ req.cookie = calcCookie(req.fileId)
    /\ req.byteOffset % TERNFS_PAGE_SIZE = 0
    /\ req.cellSize % TERNFS_PAGE_SIZE = 0

InitiateKinds ==
    {"ADD_SPAN_INITIATE", "ADD_SPAN_INITIATE_WITH_REFERENCE", "ADD_SPAN_AT_LOCATION_INITIATE"}

\* C33: when prepareLogEntry succeeds for AddSpanInitiate,
\* AddSpanInitiateWithReference or AddSpanAtLocationInitiate with parity
\* (D, P), the entry names exactly D + P block services, pairwise distinct,
\* all current block services of the entry's location and storage class, none
\* matching the blacklist of the request by id or by failure domain, in
\* pairwise distinct failure domains; with fewer than D + P such block
\* services the preparation fails, with COULD_NOT_PICK_BLOCK_SERVICES when
\* the request passes the checks that come before the picking.
PickIsRight(req, currentBlockServices, prepareErr, entry) ==
    LET want == ParityBlocks(req.parity)
        locationId == initiateLocation(req)
        eligible == EligibleBlockServices(currentBlockServices, locationId,
                                          entryStorageClass(locationId, req.storageClass),
                                          req.blacklist)
    IN  /\ prepareErr = "NO_ERROR" =>
            /\ entry.locationId = locationId
            /\ entry.storageClass = entryStorageClass(locationId, req.storageClass)
            /\ Len(entry.bodyBlocks) = want
            /\ \A i \in 1..want : entry.bodyBlocks[i].blockServiceId \in eligible
            /\ \A i, j \in 1..want :
                    i # j =>
                        /\ entry.bodyBlocks[i].blockServiceId # entry.bodyBlocks[j].blockServiceId
                        /\ FailureDomain(entry.bodyBlocks[i].blockServiceId) #
                                FailureDomain(entry.bodyBlocks[j].blockServiceId)
        /\ Cardinality(eligible) < want =>
            /\ prepareErr # "NO_ERROR"
            /\ InitiateIsSound(req) => prepareErr = "COULD_NOT_PICK_BLOCK_SERVICES"

C33_PickedBlockServicesAreApart ==
    (last # NoEntry /\ "prepareErr" \in DOMAIN last) =>
        /\ PickIsRight(last.req, last.currentBlockServices, last.prepareErr, last.entry)
        /\ last.prepareErr = "NO_ERROR" => pending[Len(pending)].entry = last.entry

\* three block services were picked from a cache that has two block services
\* in each failure domain, by a preparation that read the database itself:
\* it looked for the first span, a span was applied, and it looked for the
\* last span and picked a block service of the span applied meanwhile
C33_Witness ==
    /\ last # NoEntry
    /\ "prepareErr" \in DOMAIN last
    /\ last.prepareErr = "NO_ERROR"
    /\ Len(last.entry.bodyBlocks) = 3
    /\ Len(last.currentBlockServices) = 6
    /\ last.lastAt > last.firstAt
    /\ SpanKey(F1, 0) \in DOMAIN db.spans
    /\ SpanKey(F1, TERNFS_PAGE_SIZE) \in DOMAIN db.spans
    /\ db.spans[SpanKey(F1, 0)].locations[1].blocks[1].blockService = last.entry.bodyBlocks[1].blockServiceId
    /\ db.spans[SpanKey(F1, TERNFS_PAGE_SIZE)].locations[1].blocks[1].blockService
            = last.entry.bodyBlocks[2].blockServiceId
    /\ db.spans[SpanKey(F1, 0)].locations[1].blocks[1].blockService
            # db.spans[SpanKey(F1, TERNFS_PAGE_SIZE)].locations[1].blocks[1].blockService


\* the names of the edges of a sequence of results
NamesOf(results) == {results[i].name : i \in 1..Len(results)}

\* a response of ReadDir with a next hash has no edge of that hash and has
\* every current edge from the start hash up to it
PageIsWholeBuckets(d, req, resp) ==
    resp.nextHash # 0 =>
        /\ \A i \in 1..Len(resp.results) : resp.results[i].nameHash # resp.nextHash
        /\ \A name \in NamesFrom(d, req.dirId, req.startHash) :
                computeNameHash(name) < resp.nextHash => name \in NamesOf(resp.results)

\* C34: ReadDir never splits a name-hash bucket across pages: a response with
\* a continuation next_hash has no edge of that hash and has every current
\* edge with start_hash <= hash < next_hash; paging from start_hash 0 by
\* next_hash goes forward, so that it ends, and when it has ended every
\* current edge of the directory was returned exactly once (the directory
\* being what the read snapshot holds of it).
C34_ReadDirPagesEveryEdgeOnce ==
    (last.kind = "READ_DIR" /\ last.resp.err = "NO_ERROR") =>
        /\ PageIsWholeBuckets(readView(currentReadSnapshot, db), last.req, last.resp)
        /\ last.resp.nextHash # 0 => last.resp.nextHash > last.req.startHash
        /\ last.resp.nextHash = 0 =>
                /\ NamesOf(last.seen \o last.resp.results)
                        = NamesFrom(readView(currentReadSnapshot, db), last.req.dirId, 0)
                /\ Len(last.seen \o last.resp.results)
                        = Cardinality(NamesFrom(readView(currentReadSnapshot, db), last.req.dirId, 0))


\* the order of the keys of the block services' files
KeyBefore(x, k) == x[1] < k[1] \/ (x[1] = k[1] /\ x[2] < k[2])

NullCursor == <<0, NULL_INODE_ID>>

\* the stored keys from `begin` up to, and without, the cursor `next`
KeysBetween(d, begin, next) ==
    {k \in DOMAIN d.bsToFiles :
        /\ ~KeyBefore(k, begin)
        /\ next # NullCursor => KeyBefore(k, next)}

\* what one RemoveZeroBlockServiceFiles does, `examined` being the entries
\* before its cursor
SweepsOnce(e, resp, maxEntries, first, examined) ==
    /\ last'.err = "NO_ERROR"
    /\ Cardinality(examined) <= maxEntries
    /\ <<resp.nextBlockService, resp.nextFile>> # NullCursor =>
            /\ <<resp.nextBlockService, resp.nextFile>> \in DOMAIN db.bsToFiles
            /\ Cardinality(examined) = maxEntries
            /\ KeyBefore(<<e.startBlockService, e.startFile>>, <<resp.nextBlockService, resp.nextFile>>)
    /\ DOMAIN db'.bsToFiles = (DOMAIN db.bsToFiles) \ {k \in examined : db.bsToFiles[k] = 0}
    /\ resp.removed = Cardinality({k \in examined : db.bsToFiles[k] = 0})
    /\ db' = OnlyApplied([db EXCEPT !.bsToFiles = [k \in DOMAIN db'.bsToFiles |-> db.bsToFiles[k]]])
    /\ <<resp.nextBlockService, resp.nextFile>> = NullCursor =>
            \A k \in DOMAIN db'.bsToFiles : ~KeyBefore(k, first) => db'.bsToFiles[k] # 0

\* C35: RemoveZeroBlockServiceFiles examines at most 1000 entries (in the
\* sweeps of the specification: at most the number the sweep runs with) from
\* its cursor on, deletes exactly the examined entries whose count is 0 and
\* never one with another count, and returns the first unexamined key as
\* cursor, or the null cursor at the end; the cursor returned is after the
\* cursor given, so that a sweep ends, and when it has ended no entry at or
\* after the first cursor has the count 0.
C35_SweepRemovesZeroCounts ==
    [][(db'.lastApplied = db.lastApplied + 1 /\ last'.kind = "REMOVE_ZERO_BLOCK_SERVICE_FILES") =>
        SweepsOnce(last'.entry, last'.resp, last'.maxEntries, last'.first,
                   KeysBetween(db, <<last'.entry.startBlockService, last'.entry.startFile>>,
                               <<last'.resp.nextBlockService, last'.resp.nextFile>>))]_vars

\* a sweep has ended with its second request, which deleted an entry and
\* left one with a count that is not zero
C35_Witness ==
    /\ last # NoEntry
    /\ last.kind = "REMOVE_ZERO_BLOCK_SERVICE_FILES"
    /\ last.maxEntries = ZeroEntriesLooked
    /\ <<last.entry.startBlockService, last.entry.startFile>> # last.first
    /\ <<last.resp.nextBlockService, last.resp.nextFile>> = NullCursor
    /\ last.resp.removed >= 1
    /\ \E k \in DOMAIN db.bsToFiles : db.bsToFiles[k] # 0


\* the span that RemoveSpanInitiate finds for a transient file that is not
\* empty is a span of the file
LastSpanIsOfFile(d) ==
    \A id \in DOMAIN d.transient :
        d.transient[id].fileSize # 0 =>
            /\ SeekForPrevSpan(d, id, d.transient[id].fileSize) # <<>>
            /\ SeekForPrevSpan(d, id, d.transient[id].fileSize)[1] = id

\* C36: for every sequence of log entries produced by prepareLogEntry and
\* applied in index order, applyLogEntry never aborts the process through an
\* assertion about stored state: RemoveSpanInitiate on a transient file with
\* file_size > 0 always finds a last span belonging to that file, and
\* _fetchSpanState always finds a committed or transient file for a span
\* that exists.
C36_NoAssertionOnStoredState ==
    /\ ~aborted
    /\ LastSpanIsOfFile(db)
    /\ SpansHaveFiles(db)


\* the size of a committed or transient file
StoredFileSize(d, id) ==
    IF id \in DOMAIN d.files THEN d.files[id].fileSize ELSE d.transient[id].fileSize

\* the byte offsets of the spans of a file
SpanOffsetsOf(d, id) == {k[2] : k \in {x \in DOMAIN d.spans : x[1] = id}}

\* the spans of the file tile [0, file_size): a span starts at 0 or where
\* another one ends, no two overlap, and the file ends where no span starts
SpansTile(d, id) ==
    /\ \A o \in SpanOffsetsOf(d, id) :
            /\ o = 0 \/ \E p \in SpanOffsetsOf(d, id) : p + d.spans[SpanKey(id, p)].spanSize = o
            /\ o + d.spans[SpanKey(id, o)].spanSize <= StoredFileSize(d, id)
            /\ \A p \in SpanOffsetsOf(d, id) :
                    p < o => p + d.spans[SpanKey(id, p)].spanSize <= o
    /\ StoredFileSize(d, id) = 0 \/
            \E p \in SpanOffsetsOf(d, id) : p + d.spans[SpanKey(id, p)].spanSize = StoredFileSize(d, id)

\* C37: in every reachable state the spans of every committed or transient
\* file tile [0, file_size) without gaps or overlaps: the lowest span starts
\* at byte offset 0, each further span starts where the previous one ends,
\* and the highest span ends at file_size.
C37_SpansTileTheFile ==
    \A id \in (DOMAIN db.files) \cup (DOMAIN db.transient) : SpansTile(db, id)


\* the committed files that the step makes transient
MadeTransient == {id \in DOMAIN db.files : id \notin DOMAIN db'.files /\ id \in DOMAIN db'.transient}

\* the step unlinks F through the owned snapshot edge sk of the directory at
\* the log time of the entry
HardUnlinks(F, sk, time) ==
    /\ sk[1] \in DOMAIN db.directories
    /\ db.directories[sk[1]].mtime < time
    /\ sk \in DOMAIN db.snapshot
    /\ db.snapshot[sk].owned
    /\ db.snapshot[sk].targetId = F
    /\ db'.snapshot = Delete(db.snapshot, sk)
    /\ db'.directories[sk[1]].mtime = time
    /\ db'.files = Delete(db.files, F)
    /\ F \notin DOMAIN db.transient
    /\ DOMAIN db'.transient = DOMAIN db.transient \cup {F}
    /\ db'.transient[F].fileSize = db.files[F].fileSize
    /\ db'.transient[F].lastSpanState = "CLEAN"

HardUnlinkIsRight(e) ==
    /\ MadeTransient \subseteq {e.targetId}
    /\ e.targetId \in MadeTransient =>
            HardUnlinks(e.targetId, SnapKey(e.ownerId, e.name, e.creationTime), e.time)
    /\ last'.err = "NO_ERROR" =>
            \/ e.targetId \in MadeTransient
            \/ e.targetId \in DOMAIN db.transient /\ db' = OnlyApplied(db)

\* C38: SameShardHardFileUnlink makes a committed file F transient only if
\* the owner directory exists with an mtime earlier than the log entry time
\* and the snapshot edge (owner, name, creation_time) exists, is owned and
\* targets F; on success exactly that edge is deleted, the directory mtime
\* becomes the log entry time, and F moves from the committed files to the
\* transient files with the same file_size and last_span_state CLEAN; if F
\* is already transient it returns success without change.
C38_HardUnlinkMovesTheFileOfItsEdge ==
    [][(ApplyStep /\ last'.kind = "SAME_SHARD_HARD_FILE_UNLINK") => HardUnlinkIsRight(last'.entry)]_vars


\* the state after the entry has only set the lock flag of its current edge
\* and the mtime of its directory
OnlyLockFlag(d, e, locked) ==
    OnlyApplied([d EXCEPT !.directories[e.dirId].mtime = e.time,
                          !.current[CurKey(e.dirId, e.name)].locked = locked])

LockStepIsRight(e) ==
    IF last'.err = "NO_ERROR"
    THEN /\ CurKey(e.dirId, e.name) \in DOMAIN db.current
         /\ db' = OnlyLockFlag(db, e, e.kind = "LOCK_CURRENT_EDGE")
    ELSE db' = OnlyApplied(db)

\* C39: LockCurrentEdge and UnlockCurrentEdge with was_moved = false change
\* only the locked flag of the named current edge and the directory's mtime:
\* the edge's stored target and creation_time are the same before and after,
\* whatever target id the request names, and both are no-ops on the edge
\* when it is already in the requested lock state.
C39_LockKeepsTheTarget ==
    [][(/\ ApplyStep
        /\ last'.kind \in {"LOCK_CURRENT_EDGE", "UNLOCK_CURRENT_EDGE"}
        /\ (last'.kind = "UNLOCK_CURRENT_EDGE" => ~last'.entry.wasMoved))
            => LockStepIsRight(last'.entry)]_vars


\* the collector has taken over with F2 transient
CollectorAtWork == ~aborted /\ db.lastApplied >= MaxBuildLog /\ F2 \in DOMAIN db.transient

\* F2 is gone for good: neither committed nor transient, and no span is left
Reclaimed == F2 \notin DOMAIN db.transient /\ F2 \notin DOMAIN db.files /\ ~HasSpan(db, F2)

\* the step applies an entry of the collector, and the process lives on
CollectorApplies ==
    /\ CollectorAtWork
    /\ last' # last
    /\ last' # NoEntry
    /\ last'.index = db.lastApplied + 1
    /\ ~aborted'

\* C40: a transient file can always be reclaimed: while the GC keeps
\* applying, at strictly increasing log times, RemoveSpanInitiate on the
\* file and, whenever that condemns a blocked span, RemoveSpanCertify with
\* valid proofs for it, each of these is answered with success until the
\* file has reached file_size 0 with no spans, which is when
\* RemoveSpanInitiate answers FILE_EMPTY, after which RemoveInode at a log
\* time past the file's deadline deletes the inode.  The runs in which an
\* entry of the collector kills the process are left aside.
C40_TransientFileIsReclaimed ==
    [][CollectorApplies =>
        CASE last'.kind = "REMOVE_SPAN_INITIATE" ->
                IF last'.err = "FILE_EMPTY"
                THEN db'.transient[F2].fileSize = 0 /\ ~HasSpan(db', F2)
                ELSE last'.err = "NO_ERROR"
          [] last'.kind = "REMOVE_SPAN_CERTIFY" -> last'.err = "NO_ERROR"
          [] last'.kind = "REMOVE_INODE" -> last'.err = "NO_ERROR" /\ Reclaimed'
          [] OTHER -> FALSE]_vars

\* what does hold: a file whose spans tile it is reclaimed by the collector
\* within MaxCollectLog entries
TiledFileIsReclaimed == (CollectorAtWork /\ SpansTile(db, F2)) ~> Reclaimed

\* the file has file_size 0 and a span stored
Stranded(d) == F2 \in DOMAIN d.transient /\ d.transient[F2].fileSize = 0 /\ HasSpan(d, F2)

\* a file stranded under the collector stays so: each entry of the
\* collector is answered FILE_EMPTY or FILE_NOT_EMPTY and changes the last
\* applied index and nothing else, whatever its index and its time
StrandedForEver ==
    [][(CollectorApplies /\ Stranded(db)) =>
            /\ last'.err \in {"FILE_EMPTY", "FILE_NOT_EMPTY"}
            /\ db' = [db EXCEPT !.lastApplied = @ + 1]
            /\ Stranded(db')]_vars

\* the collector has applied RemoveInode to a stranded file, which is still
\* there
StrandedAfterRemoveInode ==
    /\ CollectorAtWork
    /\ Stranded(db)
    /\ last.kind = "REMOVE_INODE"
    /\ last.err = "FILE_NOT_EMPTY"
    /\ last.index > MaxBuildLog + 4

====
